---- MODULE Spec2Model ----
(***************************************************************************)
(* Model of the tool layer of google-cloud-mcp-python: the operation       *)
(* pollers (wait_cloudsql_operation with its bounded inner poll,           *)
(* wait_gke_operation, wait_gce_operation) and the mutating tools          *)
(* (start/stop CloudSQL, start/stop GCE, scale GKE node pool).             *)
(*                                                                         *)
(* One tool invocation is modelled at a time.  Time is a simulated clock   *)
(* in whole seconds: a provider call takes no time and time.sleep(n)       *)
(* advances the clock by exactly n.  The provider is an adversary that     *)
(* chooses, at every call, what the call returns or that it raises.        *)
(***************************************************************************)
EXTENDS Integers, Sequences, FiniteSets, TLC

\* ---------------------------------------------------------------- bounds
\* Timeouts tried are k * PerCallCap + d for k in 0..MaxChunks, d in 0..MaxDelta.
MaxChunks == 2
MaxDelta == 2
\* Poll intervals tried are 1..MaxPoll.
MaxPoll == 7

\* Most instances a project holds.
MaxRecords == 3

\* Longest databaseVersion string, in chunks (words and underscores).
MaxVersionLen == 5

\* The most disks a compute instance record lists.
MaxDisks == 3

\* The records drawn for the record normalizers have at most MaxFields of
\* their optional fields present, or at most MaxFields of them absent.
MaxFields == 2

\* The longest lookback get_metric is asked for, in minutes, and the span of
\* clock readings drawn for it, in tenths of a second.
MaxMinutes == 3

MaxNowTenths == 25

\* Invocations running at once.
NumInvocations == 2

\* ------------------------------------------------------ program constants
\* per_call_timeout = min(60, timeout)
PerCallCap == 60

Timeouts == {k * PerCallCap + d : k \in 0..MaxChunks, d \in 0..MaxDelta}
PollIntervals == 1..MaxPoll

WaitTools == {"wait_cloudsql_operation", "wait_gke_operation", "wait_gce_operation"}
CloudsqlMutators == {"start_cloudsql_instance", "stop_cloudsql_instance"}
GceMutators == {"start_gce_instance", "stop_gce_instance"}
MutatingTools == CloudsqlMutators \cup GceMutators \cup {"scale_gke_node_pool"}

Min(a, b) == IF a < b THEN a ELSE b

VARIABLES
    tool,            \* the tool being invoked ("" before the invocation)
    pc,              \* position of the invocation in its code
    timeout,         \* argument timeout (seconds)
    poll_interval,   \* argument poll_interval (seconds)
    now,             \* simulated time.time(), 0 at the invocation
    start_time,      \* start_time of the running poll loop
    single_wait,     \* budget handed to the running bounded inner poll
    elapsed,         \* wait_cloudsql_operation's bookkeeping of waited time
    final_operation, \* wait_cloudsql_operation's last partial payload
    operation,       \* payload of the latest status fetch
    fetches,         \* number of status fetches issued
    firstDone,       \* index of the first fetch that reported DONE, 0 if none
    inner_polls,     \* number of bounded inner polls started
    instance_reads,  \* number of instances.get calls issued
    instance_read,   \* outcome of the instances.get that follows DONE ("none" before it)
    mutations,       \* number of mutating provider calls issued
    failed_before,   \* a provider call before the mutating call failed
    fault,           \* exception raised by a status fetch, an initial read or a mutating call
    exit,            \* which return/raise path ended the invocation
    result,          \* the value returned to the caller
    policy,          \* provider side: settings.activationPolicy of the Cloud SQL instance
    patch_body,      \* settings.activationPolicy of the latest patch body sent ("none" before)
    instance_name,   \* argument instance_name of start/stop_cloudsql_instance
    response_name,   \* "name" of the patch response ("absent" when it has none)
    scope,           \* argument region / zone of a list tool
    upstream,        \* provider side: the pages (or zones) the listed records come in
    fail_at,         \* provider side: the page whose fetch raises, 0 if none does
    items,           \* the list a list tool returns (ids of the records in it)
    raw,             \* the raw instance record a get tool fetched
    cells,           \* the frames of the concurrent wait invocations
    fetch_ids,       \* the identifiers the status fetches were addressed to
    norm             \* a normalizer or query builder applied to an input: [fn, input, output]

vars == <<tool, pc, timeout, poll_interval, now, start_time, single_wait,
          elapsed, final_operation, operation, fetches, firstDone,
          inner_polls, instance_reads, instance_read, mutations,
          failed_before, fault, exit, result,
          policy, patch_body, instance_name, response_name,
          scope, upstream, fail_at, items, raw, cells, fetch_ids, norm>>

\* The locals of the pollers and the call counters.
pollVars == <<timeout, poll_interval, now, start_time, single_wait, elapsed,
              final_operation, operation, fetches, firstDone, inner_polls,
              instance_reads, instance_read, mutations, failed_before>>

\* What the start/stop tools of Cloud SQL work on.
sqlVars == <<policy, patch_body, instance_name, response_name>>

\* What the list and get tools work on.
readVars == <<scope, upstream, fail_at, items, raw>>

\* ------------------------------------------------------------ payloads
\* An operation payload as a status fetch returns it.  seq is the index of
\* the fetch that produced it (it stands for the payload's identity).
\*   error:    "none" (no error field), "nomsg" (error object with an empty
\*             message) or "msg" (error object with a message)
\*   opType:   TRUE when operationType contains "instance"
\*   instance: TRUE when the payload has a non-empty "instance" field
\*   target:   TRUE when targetId/targetLink is a string naming a resource
Payload(st, err, n, ot, inst, tgt) ==
    [status |-> st, error |-> err, seq |-> n,
     opType |-> ot, instance |-> inst, target |-> tgt]

None == Payload("None", "none", 0, FALSE, FALSE, FALSE)

\* The keys of a CloudSQL operation payload seen as a dict.
PayloadKeys(op) ==
    {"name", "status", "operationType"}
        \cup (IF op.error # "none" THEN {"error"} ELSE {})
        \cup (IF op.instance THEN {"instance"} ELSE {})
        \cup (IF op.target THEN {"targetLink"} ELSE {})

\* A value returned to the caller: the set of its keys and the values of
\* the keys the properties look at (a field whose key is absent holds a
\* filler).  seq is the seq of the payload the value was built from.
Value(ks, st, dn, to, err, secs, n) ==
    [keys |-> ks, status |-> st, done |-> dn, timeout |-> to,
     error |-> err, seconds |-> secs, seq |-> n]

NoValue == Value({}, "", FALSE, FALSE, "null", 0, 0)

\* settings.activationPolicy values of a Cloud SQL instance.
Policies == {"ALWAYS", "NEVER"}

\* No raw record fetched yet.
NoRaw ==
    [settings |-> FALSE, activationPolicy |-> "absent", state |-> "absent",
     ok |-> TRUE]

\* No concurrent invocations: the one invocation of Spec runs alone.
NoCells == <<>>

\* No normalizer applied.
NoNorm == [fn |-> "none"]

\* ---------------------------------------------------------------- Init
InitInvocation ==
    /\ tool = ""
    /\ pc = "idle"
    /\ timeout = 0
    /\ poll_interval = 0
    /\ now = 0
    /\ start_time = 0
    /\ single_wait = 0
    /\ elapsed = 0
    /\ final_operation = None
    /\ operation = None
    /\ fetches = 0
    /\ firstDone = 0
    /\ inner_polls = 0
    /\ instance_reads = 0
    /\ instance_read = "none"
    /\ mutations = 0
    /\ failed_before = FALSE
    /\ fault = "none"
    /\ exit = "none"
    /\ result = NoValue
    /\ policy \in Policies
    /\ patch_body = "none"
    /\ instance_name = ""
    /\ response_name = "absent"
    /\ scope = ""
    /\ upstream = <<>>
    /\ fail_at = 0
    /\ items = <<>>
    /\ raw = NoRaw
    /\ fetch_ids = {}

\* One invocation, alone.
Init ==
    /\ InitInvocation
    /\ cells = NoCells
    /\ norm = NoNorm

\* ------------------------------------------------- the provider (adversary)
\* Exceptions a provider call can raise.
Faults == {"NotFound", "Conflict", "GoogleAPIError", "Exception"}

\* A status request addressed to the name found in the latest payload.
StatusRequestId_FromPayload(t) == "operation.name"

\* What a status request is addressed to: operations().get(project=
\* project_id, operation=operation_id), get_operation(name=".../operations/
\* {operation_id}"), client.wait(operation=operation_name): the argument.
StatusRequestId(t) == "operation_id"

\* What operations.get can return for a Cloud SQL operation at fetch n: a
\* pending or running operation, or a DONE one (with or without an error
\* object, naming its instance or not).
CloudsqlResponses(n) ==
    {Payload(st, "none", n, FALSE, FALSE, FALSE) : st \in {"PENDING", "RUNNING"}}
        \cup {Payload("DONE", e, n, ot, i, t) :
                e \in {"none", "msg"}, ot \in BOOLEAN, i \in BOOLEAN, t \in BOOLEAN}

\* What get_operation can return for a GKE operation at fetch n.
GkeResponses(n) ==
    {Payload(st, "none", n, FALSE, FALSE, FALSE) : st \in {"PENDING", "RUNNING"}}
        \cup {Payload(st, e, n, FALSE, FALSE, FALSE) :
                st \in {"DONE", "ABORTING"}, e \in {"none", "nomsg", "msg"}}

\* What ZoneOperationsClient.wait can return: the operation, DONE or (when
\* the provider's own deadline passes first) still RUNNING.
GceResponses(n) ==
    {Payload("RUNNING", "none", n, FALSE, FALSE, FALSE)}
        \cup {Payload("DONE", e, n, FALSE, FALSE, FALSE) : e \in {"none", "msg"}}

\* What instances.get returns after DONE: a record, an empty record, or it raises.
InstanceReads == {"details", "empty", "raise"}

\* ------------------------------------------- wait_cloudsql_operation (chunked)
\* per_call_timeout = min(60, timeout)
per_call_timeout(to) == Min(PerCallCap, to)

\* The budget gone wrong: the remaining time is not taken into account.
SingleWait_NoRemaining(to, el) == per_call_timeout(to)

\* remaining = timeout - elapsed; single_wait = min(per_call_timeout, remaining)
SingleWait(to, el) == Min(per_call_timeout(to), to - el)

\* while elapsed < timeout
OuterContinues(el, to) == el < to

\* The DONE test gone wrong: compares with the wrong spelling of the status.
CloudsqlIsDone_WrongCase(op) == op.status = "done"

\* if status == "DONE"
CloudsqlIsDone(op) == op.status = "DONE"

\* The inner timeout test gone wrong: start_time is not subtracted.
SingleTimedOut_NoStart(t, st, budget) == t > budget

\* if (time.time() - start_time) > timeout     (inner bounded poll)
SingleTimedOut(t, st, budget) == (t - st) > budget

\* The guard of the follow-up instances.get: the operation is an instance
\* operation or has a target, and an instance name can be taken from it.
ShouldFetchInstance(op) ==
    /\ op.opType \/ op.target
    /\ op.instance \/ op.target

\* The attachment gone wrong: instance_details is set whatever the read gave.
CloudsqlDoneResult_AlwaysAttach(op, read) ==
    Value(PayloadKeys(op) \cup {"instance_details"},
          op.status, FALSE, FALSE, op.error, 0, op.seq)

\* if instance_details: operation["instance_details"] = instance_details;
\* return operation
CloudsqlDoneResult(op, read) ==
    Value(PayloadKeys(op) \cup (IF read = "details" THEN {"instance_details"} ELSE {}),
          op.status, FALSE, FALSE, op.error, 0, op.seq)

\* The fallback gone wrong: return final_operation, None when nothing was seen.
CloudsqlTimeoutResult_ReturnsNone(fop, to) ==
    IF fop # None
    THEN Value(PayloadKeys(fop) \cup {"error"}, fop.status, FALSE, FALSE,
               "OPERATION_TIMEOUT", to, fop.seq)
    ELSE NoValue

\* The timeout value gone wrong: the partial payload is returned as it is.
CloudsqlTimeoutResult_NoError(fop, to) ==
    IF fop # None
    THEN Value(PayloadKeys(fop), fop.status, FALSE, FALSE, fop.error, 0, fop.seq)
    ELSE Value({"error"}, "", FALSE, FALSE, "UNKNOWN", 0, 0)

\* After the outer loop: final_operation["error"] = {message, code:
\* OPERATION_TIMEOUT}; return final_operation or {"error": {... UNKNOWN}}
CloudsqlTimeoutResult(fop, to) ==
    IF fop # None
    THEN Value(PayloadKeys(fop) \cup {"error"}, fop.status, FALSE, FALSE,
               "OPERATION_TIMEOUT", to, fop.seq)
    ELSE Value({"error"}, "", FALSE, FALSE, "UNKNOWN", 0, 0)

InvokeWaitCloudsql ==
    /\ pc = "idle"
    /\ \E to \in Timeouts, pi \in PollIntervals :
          /\ timeout' = to
          /\ poll_interval' = pi
    /\ tool' = "wait_cloudsql_operation"
    /\ elapsed' = 0
    /\ final_operation' = None
    /\ pc' = "outer"
    /\ UNCHANGED <<now, start_time, single_wait, operation, fetches, firstDone,
                   inner_polls, instance_reads, instance_read, mutations, failed_before,
                   fault, exit, result>>
    /\ UNCHANGED <<sqlVars, readVars, cells, fetch_ids, norm>>

\* The head of the outer loop: start the next bounded inner poll, or leave
\* the loop and return the timeout value.
WaitCloudsqlOuter ==
    /\ pc = "outer"
    /\ IF OuterContinues(elapsed, timeout)
       THEN /\ single_wait' = SingleWait(timeout, elapsed)
            /\ start_time' = now
            /\ inner_polls' = inner_polls + 1
            /\ pc' = "inner"
            /\ UNCHANGED <<exit, result>>
       ELSE /\ result' = CloudsqlTimeoutResult(final_operation, timeout)
            /\ exit' = "timeout"
            /\ pc' = "returned"
            /\ UNCHANGED <<single_wait, start_time, inner_polls>>
    /\ UNCHANGED <<tool, timeout, poll_interval, now, elapsed, final_operation,
                   operation, fetches, firstDone, instance_reads, instance_read, mutations,
                   failed_before, fault>>
    /\ UNCHANGED <<sqlVars, readVars, cells, fetch_ids, norm>>

\* The except branch gone wrong: a failed fetch is retried after a sleep
\* for as long as the inner budget lasts.
CloudsqlFetchRaises_Retry ==
    /\ \E f \in Faults \ {"Conflict"} : fault' = f
    /\ fetches' = fetches + 1
    /\ IF SingleTimedOut(now, start_time, single_wait)
       THEN /\ exit' = "error"
            /\ pc' = "raised"
            /\ UNCHANGED now
       ELSE /\ exit' = exit
            /\ pc' = "inner"
            /\ now' = now + poll_interval
    /\ UNCHANGED <<elapsed, final_operation, operation, firstDone>>

\* except Exception: log; raise    (the status fetch raised)
CloudsqlFetchRaises ==
    /\ \E f \in Faults \ {"Conflict"} : fault' = f
    /\ fetches' = fetches + 1
    /\ exit' = "error"
    /\ pc' = "raised"
    /\ UNCHANGED now
    /\ UNCHANGED <<elapsed, final_operation, operation, firstDone>>

\* The status fetch returned op: one pass of the inner loop, and, when the
\* inner poll returns, the outer loop's handling of what it returned.
CloudsqlFetchReturns(op) ==
    /\ fetches' = fetches + 1
    /\ operation' = op
    /\ firstDone' = IF firstDone = 0 /\ op.status = "DONE" THEN fetches + 1 ELSE firstDone
    /\ IF CloudsqlIsDone(op)
       THEN /\ pc' = "enrich"
            /\ UNCHANGED <<now, elapsed, final_operation>>
       ELSE IF SingleTimedOut(now, start_time, single_wait)
       THEN /\ elapsed' = elapsed + single_wait
            /\ final_operation' = op
            /\ pc' = "outer"
            /\ UNCHANGED now
       ELSE /\ now' = now + poll_interval
            /\ pc' = "inner"
            /\ UNCHANGED <<elapsed, final_operation>>
    /\ UNCHANGED <<fault, exit>>

\* One iteration of _wait_cloudsql_operation_single's loop.
CloudsqlPoll ==
    /\ pc = "inner"
    /\ \/ CloudsqlFetchRaises
       \/ \E op \in CloudsqlResponses(fetches + 1) : CloudsqlFetchReturns(op)
    /\ UNCHANGED <<tool, timeout, poll_interval, start_time, single_wait,
                   inner_polls, instance_reads, instance_read, mutations, failed_before, result>>
    /\ fetch_ids' = fetch_ids \cup {StatusRequestId(tool)}
    /\ UNCHANGED <<sqlVars, readVars, cells, norm>>

\* status == "DONE": attach instance details if possible, return operation.
CloudsqlEnrich ==
    /\ pc = "enrich"
    /\ IF ShouldFetchInstance(operation)
       THEN \E read \in InstanceReads :
              /\ instance_reads' = instance_reads + 1
              /\ instance_read' = read
              /\ result' = CloudsqlDoneResult(operation, read)
       ELSE /\ result' = CloudsqlDoneResult(operation, "none")
            /\ UNCHANGED <<instance_reads, instance_read>>
    /\ exit' = "terminal"
    /\ pc' = "returned"
    /\ UNCHANGED <<tool, timeout, poll_interval, now, start_time, single_wait,
                   elapsed, final_operation, operation, fetches, firstDone,
                   inner_polls, mutations, failed_before, fault>>
    /\ UNCHANGED <<sqlVars, readVars, cells, fetch_ids, norm>>

\* ----------------------------------------------------- wait_gke_operation
GkeKeys == {"done", "operation_id", "status", "error", "timeout", "project_id", "location"}

\* if op.status == Operation.Status.DONE
GkeIsDone(op) == op.status = "DONE"

\* if op.status == Operation.Status.ABORTING
GkeIsAborting(op) == op.status = "ABORTING"

\* if time.time() - start_time > timeout
GkeTimedOut(t, st, budget) == (t - st) > budget

\* {"done": True, "status": op.status.name,
\*  "error": op.error.message if op.error and op.error.message else None,
\*  "timeout": False, ...}
GkeDoneResult(op) ==
    Value(GkeKeys, op.status, TRUE, FALSE,
          IF op.error = "msg" THEN "msg" ELSE "null", 0, op.seq)

\* The ABORTING value gone wrong: done copied from the DONE branch.
GkeAbortingResult_DoneTrue(op) ==
    Value(GkeKeys, op.status, TRUE, FALSE,
          CASE op.error = "msg" -> "msg"
            [] op.error = "nomsg" -> ""
            [] OTHER -> "Unknown error",
          0, op.seq)

\* {"done": False, "status": op.status.name,
\*  "error": op.error.message if op.error else "Unknown error",
\*  "timeout": False, ...}
GkeAbortingResult(op) ==
    Value(GkeKeys, op.status, FALSE, FALSE,
          CASE op.error = "msg" -> "msg"
            [] op.error = "nomsg" -> ""
            [] OTHER -> "Unknown error",
          0, op.seq)

\* {"done": False, "status": "TIMEOUT", "error": "Timeout waiting for ...",
\*  "timeout": True, ...}
GkeTimeoutResult ==
    Value(GkeKeys, "TIMEOUT", FALSE, TRUE, "Timeout waiting for operation", 0, 0)

\* except Exception: return {"error": str(exc), "context": {...}}
GkeErrorResult ==
    Value({"error", "context"}, "", FALSE, FALSE, "exc", 0, 0)

InvokeWaitGke ==
    /\ pc = "idle"
    /\ \E to \in Timeouts, pi \in PollIntervals :
          /\ timeout' = to
          /\ poll_interval' = pi
    /\ tool' = "wait_gke_operation"
    /\ start_time' = now
    /\ pc' = "gke_poll"
    /\ UNCHANGED <<now, single_wait, elapsed, final_operation, operation,
                   fetches, firstDone, inner_polls, instance_reads, instance_read, mutations,
                   failed_before, fault, exit, result>>
    /\ UNCHANGED <<sqlVars, readVars, cells, fetch_ids, norm>>

\* get_operation raised: the handler returns the error value.
GkeFetchRaises ==
    /\ \E f \in Faults \ {"Conflict"} : fault' = f
    /\ fetches' = fetches + 1
    /\ result' = GkeErrorResult
    /\ exit' = "error"
    /\ pc' = "returned"
    /\ UNCHANGED <<now, operation, firstDone>>

\* The pass gone wrong: the timeout is tested before the status.
GkeFetchReturns_TimeoutFirst(op) ==
    /\ fetches' = fetches + 1
    /\ operation' = op
    /\ firstDone' = IF firstDone = 0 /\ op.status = "DONE" THEN fetches + 1 ELSE firstDone
    /\ IF GkeTimedOut(now, start_time, timeout)
       THEN /\ result' = GkeTimeoutResult
            /\ exit' = "timeout"
            /\ pc' = "returned"
            /\ UNCHANGED now
       ELSE IF GkeIsDone(op)
       THEN /\ result' = GkeDoneResult(op)
            /\ exit' = "terminal"
            /\ pc' = "returned"
            /\ UNCHANGED now
       ELSE IF GkeIsAborting(op)
       THEN /\ result' = GkeAbortingResult(op)
            /\ exit' = "terminal"
            /\ pc' = "returned"
            /\ UNCHANGED now
       ELSE /\ now' = now + poll_interval
            /\ pc' = "gke_poll"
            /\ UNCHANGED <<result, exit>>
    /\ UNCHANGED fault

\* get_operation returned op: one pass of the loop.
GkeFetchReturns(op) ==
    /\ fetches' = fetches + 1
    /\ operation' = op
    /\ firstDone' = IF firstDone = 0 /\ op.status = "DONE" THEN fetches + 1 ELSE firstDone
    /\ IF GkeIsDone(op)
       THEN /\ result' = GkeDoneResult(op)
            /\ exit' = "terminal"
            /\ pc' = "returned"
            /\ UNCHANGED now
       ELSE IF GkeIsAborting(op)
       THEN /\ result' = GkeAbortingResult(op)
            /\ exit' = "terminal"
            /\ pc' = "returned"
            /\ UNCHANGED now
       ELSE IF GkeTimedOut(now, start_time, timeout)
       THEN /\ result' = GkeTimeoutResult
            /\ exit' = "timeout"
            /\ pc' = "returned"
            /\ UNCHANGED now
       ELSE /\ now' = now + poll_interval
            /\ pc' = "gke_poll"
            /\ UNCHANGED <<result, exit>>
    /\ UNCHANGED fault

\* One iteration of wait_gke_operation's loop.
GkePoll ==
    /\ pc = "gke_poll"
    /\ \/ GkeFetchRaises
       \/ \E op \in GkeResponses(fetches + 1) : GkeFetchReturns(op)
    /\ UNCHANGED <<tool, timeout, poll_interval, start_time, single_wait,
                   elapsed, final_operation, inner_polls, instance_reads,
                   instance_read, mutations, failed_before>>
    /\ fetch_ids' = fetch_ids \cup {StatusRequestId(tool)}
    /\ UNCHANGED <<sqlVars, readVars, cells, norm>>

\* ----------------------------------------------------- wait_gce_operation
GceOpKeys == {"name", "status", "progress"}

\* operation_dict = compute_v1.Operation.to_dict(operation)
GceOperationResult(op) ==
    Value(GceOpKeys \cup (IF op.error # "none" THEN {"error"} ELSE {}),
          op.status, FALSE, FALSE, op.error, 0, op.seq)

\* operation_dict: Dict[str, Any] = {}, returned by every except branch
GceEmptyResult == Value({}, "", FALSE, FALSE, "null", 0, 0)

InvokeWaitGce ==
    /\ pc = "idle"
    /\ tool' = "wait_gce_operation"
    /\ pc' = "gce_wait"
    /\ UNCHANGED <<timeout, poll_interval, now, start_time, single_wait, elapsed,
                   final_operation, operation, fetches, firstDone, inner_polls,
                   instance_reads, instance_read, mutations, failed_before, fault, exit, result>>
    /\ UNCHANGED <<sqlVars, readVars, cells, fetch_ids, norm>>

\* The single client.wait call and the return that follows it.
GceWait ==
    /\ pc = "gce_wait"
    /\ fetches' = fetches + 1
    /\ \/ \E op \in GceResponses(fetches + 1) :
            /\ operation' = op
            /\ firstDone' = IF op.status = "DONE" THEN fetches + 1 ELSE firstDone
            /\ result' = GceOperationResult(op)
            /\ exit' = "wait_returned"
            /\ UNCHANGED fault
       \/ /\ \E f \in Faults \ {"Conflict"} : fault' = f
          /\ result' = GceEmptyResult
          /\ exit' = "error"
          /\ UNCHANGED <<operation, firstDone>>
    /\ pc' = "returned"
    /\ UNCHANGED <<tool, timeout, poll_interval, now, start_time, single_wait,
                   elapsed, final_operation, inner_polls, instance_reads,
                   instance_read, mutations, failed_before>>
    /\ fetch_ids' = fetch_ids \cup {StatusRequestId(tool)}
    /\ UNCHANGED <<sqlVars, readVars, cells, norm>>

\* --------------------------- start_cloudsql_instance, stop_cloudsql_instance
\* operation_id = response.get("name", "")
OperationId(resp) == IF resp = "absent" THEN "" ELSE resp

\* return {"status": "STARTING" | "STOPPING", "instance": ..., "operation": ...}
CloudsqlAck(t) ==
    Value({"status", "instance", "operation"},
          IF t = "start_cloudsql_instance" THEN "STARTING" ELSE "STOPPING",
          FALSE, FALSE, "null", 0, 0)

\* The start/stop value with its instance and operation fields:
\* "instance": instance_name, "operation": operation_id
CloudsqlAckFor(t, inst, resp) ==
    LET a == CloudsqlAck(t)
    IN  [keys |-> a.keys, status |-> a.status, done |-> a.done,
         timeout |-> a.timeout, error |-> a.error, seconds |-> a.seconds,
         seq |-> a.seq, instance |-> inst, operation |-> OperationId(resp)]

\* Instance names the start/stop tools are called with.
InstanceNames == {"db1", "db2"}

\* What the "name" of a patch response can be.
ResponseNames == {"absent", "op-1", "op-2"}

\* The stop body gone wrong: copied from start without changing the policy.
CloudsqlPatchBody_AlwaysAlways(t) == "ALWAYS"

\* patch_body = {"settings": {"activationPolicy": "ALWAYS" | "NEVER"}}
CloudsqlPatchBody(t) ==
    IF t = "start_cloudsql_instance" THEN "ALWAYS" ELSE "NEVER"

InvokeCloudsqlMutator ==
    /\ pc = "idle"
    /\ \E t \in CloudsqlMutators : tool' = t
    /\ \E n \in InstanceNames : instance_name' = n
    /\ pc' = "sql_get"
    /\ UNCHANGED <<timeout, poll_interval, now, start_time, single_wait, elapsed,
                   final_operation, operation, fetches, firstDone, inner_polls,
                   instance_reads, instance_read, mutations, failed_before, fault, exit, result>>
    /\ UNCHANGED <<policy, patch_body, response_name, readVars, cells, fetch_ids, norm>>

\* The read gone wrong: its failure is swallowed and the patch is sent.
CloudsqlGet_IgnoresFailure ==
    /\ pc = "sql_get"
    /\ instance_reads' = instance_reads + 1
    /\ \/ /\ pc' = "sql_patch"
          /\ UNCHANGED <<failed_before, fault, exit>>
       \/ /\ \E f \in Faults \ {"Conflict"} : fault' = f
          /\ failed_before' = TRUE
          /\ exit' = exit
          /\ pc' = "sql_patch"
    /\ UNCHANGED <<tool, timeout, poll_interval, now, start_time, single_wait,
                   elapsed, final_operation, operation, fetches, firstDone,
                   inner_polls, instance_read, mutations, result>>
    /\ UNCHANGED <<sqlVars, readVars, cells, fetch_ids, norm>>

\* instance = service.instances().get(...).execute()
CloudsqlGet ==
    /\ pc = "sql_get"
    /\ instance_reads' = instance_reads + 1
    /\ \/ /\ pc' = "sql_patch"
          /\ UNCHANGED <<failed_before, fault, exit>>
       \/ /\ \E f \in Faults \ {"Conflict"} : fault' = f
          /\ failed_before' = TRUE
          /\ exit' = "error"
          /\ pc' = "raised"
    /\ UNCHANGED <<tool, timeout, poll_interval, now, start_time, single_wait,
                   elapsed, final_operation, operation, fetches, firstDone,
                   inner_polls, instance_read, mutations, result>>
    /\ UNCHANGED <<sqlVars, readVars, cells, fetch_ids, norm>>

\* The except branch gone wrong: a patch that raised is issued once more.
CloudsqlPatchFailed_Retry ==
    IF mutations = 0
    THEN /\ exit' = exit
         /\ pc' = "sql_patch"
         /\ UNCHANGED result
    ELSE /\ exit' = "error"
         /\ pc' = "raised"
         /\ UNCHANGED result

\* What follows a patch that raised: except Exception: log; raise
CloudsqlPatchFailed ==
    /\ exit' = "error"
    /\ pc' = "raised"
    /\ UNCHANGED result

\* response = service.instances().patch(...).execute(), and the return
CloudsqlPatch ==
    /\ pc = "sql_patch"
    /\ mutations' = mutations + 1
    /\ patch_body' = CloudsqlPatchBody(tool)
    /\ \/ /\ policy' = patch_body'
          /\ \E r \in ResponseNames :
                /\ response_name' = r
                /\ result' = CloudsqlAckFor(tool, instance_name, r)
          /\ exit' = "ack"
          /\ pc' = "returned"
          /\ UNCHANGED fault
       \/ /\ \E f \in Faults : fault' = f
          /\ CloudsqlPatchFailed
          /\ UNCHANGED <<policy, response_name>>
    /\ UNCHANGED <<tool, timeout, poll_interval, now, start_time, single_wait,
                   elapsed, final_operation, operation, fetches, firstDone,
                   inner_polls, instance_reads, instance_read, failed_before>>
    /\ UNCHANGED <<instance_name, readVars, cells, fetch_ids, norm>>

\* --------------------------------------- start_gce_instance, stop_gce_instance
InvokeGceMutator ==
    /\ pc = "idle"
    /\ \E t \in GceMutators : tool' = t
    /\ pc' = "gce_mutate"
    /\ UNCHANGED <<timeout, poll_interval, now, start_time, single_wait, elapsed,
                   final_operation, operation, fetches, firstDone, inner_polls,
                   instance_reads, instance_read, mutations, failed_before, fault, exit, result>>
    /\ UNCHANGED <<sqlVars, readVars, cells, fetch_ids, norm>>

\* What follows a start/stop call that raised: every except branch returns
\* operation_dict, still empty.
GceMutateFailed ==
    /\ result' = GceEmptyResult
    /\ exit' = "error"
    /\ pc' = "returned"

\* A start/stop that waits: after the initiating call it fetches the status
\* of the operation and merges instance_name and initial_action into it.
GceMutate_Waits ==
    /\ pc = "gce_mutate"
    /\ mutations' = mutations + 1
    /\ \/ /\ \E op \in GceResponses(1) :
                result' = [GceOperationResult(op) EXCEPT
                              !.keys = @ \cup {"instance_name", "initial_action"}]
          /\ fetches' = fetches + 1
          /\ exit' = "ack"
          /\ pc' = "returned"
          /\ UNCHANGED fault
       \/ /\ \E f \in Faults : fault' = f
          /\ GceMutateFailed
          /\ UNCHANGED fetches
    /\ UNCHANGED <<tool, timeout, poll_interval, now, start_time, single_wait,
                   elapsed, final_operation, operation, firstDone,
                   inner_polls, instance_reads, instance_read, failed_before>>
    /\ UNCHANGED <<sqlVars, readVars, cells, fetch_ids, norm>>

\* operation = client.start(...) | client.stop(...), and the return
GceMutate ==
    /\ pc = "gce_mutate"
    /\ mutations' = mutations + 1
    /\ \/ /\ \E op \in GceResponses(0) : result' = GceOperationResult(op)
          /\ exit' = "ack"
          /\ pc' = "returned"
          /\ UNCHANGED fault
       \/ /\ \E f \in Faults : fault' = f
          /\ GceMutateFailed
    /\ UNCHANGED <<tool, timeout, poll_interval, now, start_time, single_wait,
                   elapsed, final_operation, operation, fetches, firstDone,
                   inner_polls, instance_reads, instance_read, failed_before>>
    /\ UNCHANGED <<sqlVars, readVars, cells, fetch_ids, norm>>

\* ------------------------------------------------------ scale_gke_node_pool
\* return {"operation_id": ..., "status": response.status.name, ...}
GkeScaleAck(st) ==
    Value({"operation_id", "project_id", "location", "cluster_name",
           "node_pool_name", "status", "start_time", "operation_type"},
          st, FALSE, FALSE, "null", 0, 0)

\* err = ErrorResponse(error=str(e), detail=repr(e), context={...}); err.dict()
ErrorResponse == Value({"error", "detail", "context"}, "", FALSE, FALSE, "exc", 0, 0)

InvokeScaleGke ==
    /\ pc = "idle"
    /\ tool' = "scale_gke_node_pool"
    /\ pc' = "gke_scale"
    /\ UNCHANGED <<timeout, poll_interval, now, start_time, single_wait, elapsed,
                   final_operation, operation, fetches, firstDone, inner_polls,
                   instance_reads, instance_read, mutations, failed_before, fault, exit, result>>
    /\ UNCHANGED <<sqlVars, readVars, cells, fetch_ids, norm>>

\* What follows a set_node_pool_size call that raised: return err.dict()
GkeScaleFailed ==
    /\ result' = ErrorResponse
    /\ exit' = "error"
    /\ pc' = "returned"

\* response = client.set_node_pool_size(request=request), and the return
GkeScale ==
    /\ pc = "gke_scale"
    /\ mutations' = mutations + 1
    /\ \/ /\ \E st \in {"PENDING", "RUNNING", "DONE"} : result' = GkeScaleAck(st)
          /\ exit' = "ack"
          /\ pc' = "returned"
          /\ UNCHANGED fault
       \/ /\ \E f \in Faults : fault' = f
          /\ GkeScaleFailed
    /\ UNCHANGED <<tool, timeout, poll_interval, now, start_time, single_wait,
                   elapsed, final_operation, operation, fetches, firstDone,
                   inner_polls, instance_reads, instance_read, failed_before>>
    /\ UNCHANGED <<sqlVars, readVars, cells, fetch_ids, norm>>

\* ------------------------------------------------------- the specification
\* ------------------------------------------------------------- list tools
ListTools == {"list_cloudsql_instances", "list_gce_instances", "list_gke_clusters"}

\* Regions (zones, locations) the instances of the project lie in.
Regions == {"r1", "r2"}

\* The scope argument: region = "-" (default) or a region for Cloud SQL,
\* zone = None (written "") or a zone for GCE, location "-" or a location
\* for GKE.
Scopes(t) == IF t = "list_gce_instances" THEN {"", "r1"} ELSE {"-", "r1"}

\* The project's n instances in provider order: id is the position, region
\* the region/zone field, ok whether the record can be normalized.
Records(n) ==
    { [i \in 1..n |-> [id |-> i, region |-> f[i][1], ok |-> f[i][2]]] :
        f \in [1..n -> Regions \X BOOLEAN] }

\* The provider's answer split after the k-th record: one page when k is
\* the last record, otherwise a first page with a nextPageToken and a second.
Pages(recs, k) ==
    IF k = Len(recs) THEN <<recs>>
    ELSE <<SubSeq(recs, 1, k), SubSeq(recs, k + 1, Len(recs))>>

PagesOf(n) ==
    UNION { { Pages(recs, k) : k \in (IF n = 0 THEN {0} ELSE 1..n) } :
                recs \in Records(n) }

Upstreams == UNION { PagesOf(n) : n \in 0..MaxRecords }

\* What a failing list request raises.
ListFaults == {"GoogleAPIError", "Exception"}

\* All records of all pages, in order.
RECURSIVE Flatten(_)
Flatten(pages) ==
    IF pages = <<>> THEN <<>> ELSE Head(pages) \o Flatten(Tail(pages))

InvokeList ==
    /\ pc = "idle"
    /\ \E t \in ListTools :
          /\ tool' = t
          /\ \E s \in Scopes(t) : scope' = s
          /\ pc' = CASE t = "list_cloudsql_instances" -> "list_cloudsql"
                     [] t = "list_gce_instances" -> "list_gce"
                     [] OTHER -> "list_gke"
    /\ \E u \in Upstreams :
          /\ upstream' = u
          /\ \E p \in 0..Len(u) : fail_at' = p
    /\ UNCHANGED <<fault, exit, result, items, raw>>
    /\ UNCHANGED <<pollVars, sqlVars, cells, fetch_ids, norm>>

\* return {"instances": items} | {"clusters": clusters}
ListResult(key) == Value({key}, "", FALSE, FALSE, "null", 0, 0)

\* The region test that lets every instance through.
CloudsqlKeeps_NoFilter(inst, region) == TRUE

\* if region != "-" and inst.get("region") != region: continue
CloudsqlKeeps(inst, region) == ~(region # "-" /\ inst.region # region)

\* for inst in all_instances: filter by region, build, append; a record
\* that cannot be built is logged and skipped.
RECURSIVE CloudsqlLoop(_, _, _)
CloudsqlLoop(all_instances, region, acc) ==
    IF all_instances = <<>> THEN acc
    ELSE LET inst == Head(all_instances)
         IN  CloudsqlLoop(Tail(all_instances), region,
                 IF CloudsqlKeeps(inst, region) /\ inst.ok
                 THEN Append(acc, inst.id) ELSE acc)

\* response = service.instances().list(project=project_id).execute();
\* all_instances = response.get("items", []); the loop; the return.
ListCloudsql ==
    /\ pc = "list_cloudsql"
    /\ IF fail_at = 1
       THEN /\ \E f \in ListFaults : fault' = f
            /\ exit' = "error"
            /\ pc' = "raised"
            /\ UNCHANGED <<result, items>>
       ELSE /\ items' = CloudsqlLoop(upstream[1], scope, <<>>)
            /\ result' = ListResult("instances")
            /\ exit' = "listed"
            /\ pc' = "returned"
            /\ UNCHANGED fault
    /\ UNCHANGED <<tool, scope, upstream, fail_at, raw>>
    /\ UNCHANGED <<pollVars, sqlVars, cells, fetch_ids, norm>>

\* The instances one page of the pager yields: client.list(zone=zone) is
\* answered for that zone only, client.aggregated_list for every zone.
GcePage(page, zone) == SelectSeq(page, LAMBDA r : zone = "" \/ r.region = zone)

\* for instance_obj in ...: instance_list.append(item.build()); a build
\* that raises leaves the loop for the except branch.
RECURSIVE GceBuildAll(_, _)
GceBuildAll(recs, acc) ==
    IF recs = <<>> THEN [list |-> acc, raised |-> FALSE, api |-> FALSE]
    ELSE IF ~Head(recs).ok THEN [list |-> acc, raised |-> TRUE, api |-> FALSE]
    ELSE GceBuildAll(Tail(recs), Append(acc, Head(recs).id))

\* Iterating the pager: page p is requested when the loop reaches it; a
\* request that raises leaves the loop for the except branch.
RECURSIVE GcePager(_, _, _, _, _)
GcePager(pages, p, zone, failAt, acc) ==
    IF p > Len(pages) THEN [list |-> acc, raised |-> FALSE, api |-> FALSE]
    ELSE IF failAt = p THEN [list |-> acc, raised |-> TRUE, api |-> TRUE]
    ELSE LET r == GceBuildAll(GcePage(pages[p], zone), acc)
         IN  IF r.raised THEN r ELSE GcePager(pages, p + 1, zone, failAt, r.list)

\* instance_list, a list: it has no keys.
GceListResult == Value({}, "", FALSE, FALSE, "null", 0, 0)

\* The try block of list_gce_instances; both except branches and the normal
\* end return instance_list.
ListGce ==
    /\ pc = "list_gce"
    /\ LET r == GcePager(upstream, 1, scope, fail_at, <<>>)
       IN  /\ items' = r.list
           /\ IF r.api THEN \E f \in ListFaults : fault' = f ELSE UNCHANGED fault
           /\ exit' = IF r.raised THEN "error" ELSE "listed"
    /\ result' = GceListResult
    /\ pc' = "returned"
    /\ UNCHANGED <<tool, scope, upstream, fail_at, raw>>
    /\ UNCHANGED <<pollVars, sqlVars, cells, fetch_ids, norm>>

\* response.clusters for parent projects/<p>/locations/<location>: the
\* provider answers with the clusters of that location, "-" meaning all.
GkeClusters(pages, location) ==
    SelectSeq(Flatten(pages), LAMBDA r : location = "-" \/ r.region = location)

\* clusters = [{...} for cluster in response.clusters]
GkeComprehension(clusters) ==
    IF \E i \in 1..Len(clusters) : ~clusters[i].ok
    THEN [list |-> <<>>, raised |-> TRUE]
    ELSE [list |-> [i \in 1..Len(clusters) |-> clusters[i].id], raised |-> FALSE]

\* response = client.list_clusters(parent=parent) in try; the except branch
\* returns the ErrorResponse dict; the else branch builds the clusters
\* outside the try.
ListGke ==
    /\ pc = "list_gke"
    /\ IF fail_at = 1
       THEN /\ \E f \in ListFaults : fault' = f
            /\ result' = ErrorResponse
            /\ exit' = "error"
            /\ pc' = "returned"
            /\ UNCHANGED items
       ELSE LET r == GkeComprehension(GkeClusters(upstream, scope))
            IN  /\ UNCHANGED fault
                /\ IF r.raised
                   THEN /\ exit' = "error"
                        /\ pc' = "raised"
                        /\ UNCHANGED <<result, items>>
                   ELSE /\ items' = r.list
                        /\ result' = ListResult("clusters")
                        /\ exit' = "listed"
                        /\ pc' = "returned"
    /\ UNCHANGED <<tool, scope, upstream, fail_at, raw>>
    /\ UNCHANGED <<pollVars, sqlVars, cells, fetch_ids, norm>>

\* -------------------------------------------------------------- get tools
GetTools == {"get_cloudsql_instance", "get_gce_instance"}

\* Raw Cloud SQL instance records: whether "settings" is present, its
\* activationPolicy ("absent" when the key is missing), the provider's
\* "state" field, and ok: whether the rest of the record can be built.
RawInstances ==
    { r \in [settings : BOOLEAN,
             activationPolicy : {"absent", "ALWAYS", "NEVER", "ON_DEMAND"},
             state : {"absent", "RUNNABLE", "SUSPENDED"},
             ok : BOOLEAN] :
        ~r.settings => r.activationPolicy = "absent" }

\* Raw GCE instances: no settings; state holds the instance's status.
GceRawInstances ==
    [settings : {FALSE}, activationPolicy : {"absent"},
     state : {"RUNNING", "TERMINATED"}, ok : BOOLEAN]

\* A status read from the provider's state field.
GetStatus_ByState(instance) ==
    IF instance.state = "RUNNABLE" THEN "RUNNING" ELSE "STOPPED"

\* "RUNNING" if instance.get("settings", {}).get("activationPolicy") ==
\* "ALWAYS" else "STOPPED"
GetStatus(instance) ==
    LET settings == IF instance.settings
                    THEN [activationPolicy |-> instance.activationPolicy]
                    ELSE [activationPolicy |-> "absent"]
    IN  IF settings.activationPolicy = "ALWAYS" THEN "RUNNING" ELSE "STOPPED"

\* The fields of GcpCloudSQLItem, the keys of item.asdict().
CloudsqlItemKeys ==
    {"name", "database_type", "database_version", "status", "zone",
     "is_replica", "is_ha_enabled", "is_ssl_enabled", "disk_size", "disk_type",
     "machine_type", "create_time", "internal_ip_address", "public_ip_address",
     "ma_reschedulable", "ma_start_time", "ma_deadline_time", "ma_version",
     "ma_available_version"}

\* GcpCloudSQLItem.build(...).asdict()
CloudsqlItem(instance) ==
    Value(CloudsqlItemKeys, GetStatus(instance), FALSE, FALSE, "null", 0, 0)

\* The keys of GcpComputeInstanceItem.build().
GceItemKeys ==
    {"Project ID", "Name", "Zone", "Status", "Machine Type", "Internal IP",
     "External IP", "Boot Disk Name", "Boot Disk Size (GB)",
     "Creation Timestamp"}

\* "Status": self.instance_data.get("status", "UNKNOWN")
GceItem(instance) ==
    Value(GceItemKeys, instance.state, FALSE, FALSE, "null", 0, 0)

InvokeGet ==
    /\ pc = "idle"
    /\ \E t \in GetTools :
          /\ tool' = t
          /\ pc' = IF t = "get_cloudsql_instance" THEN "get_cloudsql" ELSE "get_gce"
    /\ UNCHANGED <<fault, exit, result, readVars>>
    /\ UNCHANGED <<pollVars, sqlVars, cells, fetch_ids, norm>>

\* response = request.execute(); item = GcpCloudSQLItem.build(...);
\* return item.asdict(); except Exception: log; raise
GetCloudsql ==
    /\ pc = "get_cloudsql"
    /\ \/ \E r \in RawInstances :
            /\ raw' = r
            /\ IF r.ok
               THEN /\ result' = CloudsqlItem(r)
                    /\ exit' = "got"
                    /\ pc' = "returned"
               ELSE /\ exit' = "error"
                    /\ pc' = "raised"
                    /\ UNCHANGED result
            /\ UNCHANGED fault
       \/ /\ \E f \in Faults \ {"Conflict"} : fault' = f
          /\ exit' = "error"
          /\ pc' = "raised"
          /\ UNCHANGED <<result, raw>>
    /\ UNCHANGED <<tool, scope, upstream, fail_at, items>>
    /\ UNCHANGED <<pollVars, sqlVars, cells, fetch_ids, norm>>

\* instance_obj = client.get(...); instance_dict = item.build(); every
\* except branch returns instance_dict, still empty.
GetGce ==
    /\ pc = "get_gce"
    /\ \/ \E r \in GceRawInstances :
            /\ raw' = r
            /\ result' = IF r.ok THEN GceItem(r) ELSE GceEmptyResult
            /\ exit' = IF r.ok THEN "got" ELSE "error"
            /\ UNCHANGED fault
       \/ /\ \E f \in Faults \ {"Conflict"} : fault' = f
          /\ result' = GceEmptyResult
          /\ exit' = "error"
          /\ UNCHANGED raw
    /\ pc' = "returned"
    /\ UNCHANGED <<tool, scope, upstream, fail_at, items>>
    /\ UNCHANGED <<pollVars, sqlVars, cells, fetch_ids, norm>>

\* The records the tool's list requests return when none of them fails:
\* list_cloudsql_instances issues one request and reads its "items"; the
\* GCE pagers follow every page; list_clusters answers in one response.
Fetched(t, pages) ==
    IF t = "list_cloudsql_instances" THEN pages[1] ELSE Flatten(pages)

\* Whether record r lies in the scope the tool was called with.
InScope(r, s) == s \in {"-", ""} \/ r.region = s

\* error values that are {message, code} mappings, named by their code
ErrorMappings == {"OPERATION_TIMEOUT", "UNKNOWN"}

\* -------------------------------------------------------------------- Next
Next ==
    \/ InvokeWaitCloudsql
    \/ WaitCloudsqlOuter
    \/ CloudsqlPoll
    \/ CloudsqlEnrich
    \/ InvokeWaitGke
    \/ GkePoll
    \/ InvokeWaitGce
    \/ GceWait
    \/ InvokeCloudsqlMutator
    \/ CloudsqlGet
    \/ CloudsqlPatch
    \/ InvokeGceMutator
    \/ GceMutate
    \/ InvokeScaleGke
    \/ GkeScale
    \/ InvokeList
    \/ ListCloudsql
    \/ ListGce
    \/ ListGke
    \/ InvokeGet
    \/ GetCloudsql
    \/ GetGce

Spec == Init /\ [][Next]_vars

\* Every provider call returns and the clock advances: the invocation keeps
\* taking its next step.
LiveSpec == Spec /\ WF_vars(Next)

Ended == pc \in {"returned", "raised"}

\* The tools that poll an operation until it ends.
Pollers == {"wait_cloudsql_operation", "wait_gke_operation"}

\* ------------------------------------------------- concurrent invocations
\* Several wait invocations run at once, each in its own thread.  cells
\* holds, per invocation, the locals of its call (frames), and two records
\* kept for the properties: the arguments it was called with (args) and
\* the provider responses it has received so far (seen).
Invocations == 1..NumInvocations

ConcTimeouts == {1, PerCallCap + 1}

ConcPollIntervals == {PerCallCap}

\* What a status fetch gives a concurrent invocation: a running or a done
\* operation (naming no instance), or it raises.
ConcResponses == {"RUNNING", "DONE", "raise"}

IdleFrame ==
    [pc |-> "idle", tool |-> "", timeout |-> 0, poll_interval |-> 0, now |-> 0,
     start_time |-> 0, single_wait |-> 0, elapsed |-> 0, fetches |-> 0,
     final_operation |-> None, result |-> NoValue]

\* The locals at the start of a call: elapsed = 0, final_operation = None
\* (Cloud SQL); start_time = time.time() (GKE).  now is the wall-clock time
\* the invocation has reached.
Frame(t, to, pi) ==
    [IdleFrame EXCEPT !.pc = IF t = "wait_cloudsql_operation" THEN "outer" ELSE "gke_poll",
                      !.tool = t, !.timeout = to, !.poll_interval = pi]

\* All invocations write the same locals: the locals are module-level.
Slot_Shared(i) == 1

\* The locals invocation i reads and writes: its own.
Slot(i) == i

\* The head of wait_cloudsql_operation's outer loop, on a frame.
FrameOuter(f) ==
    IF OuterContinues(f.elapsed, f.timeout)
    THEN [f EXCEPT !.single_wait = SingleWait(f.timeout, f.elapsed),
                   !.start_time = f.now,
                   !.pc = "inner"]
    ELSE [f EXCEPT !.result = CloudsqlTimeoutResult(f.final_operation, f.timeout),
                   !.pc = "returned"]

\* One iteration of _wait_cloudsql_operation_single's loop, on a frame.
FrameCloudsqlPoll(f, r) ==
    LET op == Payload(r, "none", f.fetches + 1, FALSE, FALSE, FALSE)
    IN  IF r = "raise"
        THEN [f EXCEPT !.fetches = @ + 1, !.pc = "raised"]
        ELSE IF CloudsqlIsDone(op)
        THEN [f EXCEPT !.fetches = @ + 1,
                       !.result = CloudsqlDoneResult(op, "none"),
                       !.pc = "returned"]
        ELSE IF SingleTimedOut(f.now, f.start_time, f.single_wait)
        THEN [f EXCEPT !.fetches = @ + 1,
                       !.elapsed = @ + f.single_wait,
                       !.final_operation = op,
                       !.pc = "outer"]
        ELSE [f EXCEPT !.fetches = @ + 1, !.now = @ + f.poll_interval]

\* One iteration of wait_gke_operation's loop, on a frame.
FrameGkePoll(f, r) ==
    LET op == Payload(r, "none", f.fetches + 1, FALSE, FALSE, FALSE)
    IN  IF r = "raise"
        THEN [f EXCEPT !.fetches = @ + 1, !.result = GkeErrorResult, !.pc = "returned"]
        ELSE IF GkeIsDone(op)
        THEN [f EXCEPT !.fetches = @ + 1, !.result = GkeDoneResult(op), !.pc = "returned"]
        ELSE IF GkeTimedOut(f.now, f.start_time, f.timeout)
        THEN [f EXCEPT !.fetches = @ + 1, !.result = GkeTimeoutResult, !.pc = "returned"]
        ELSE [f EXCEPT !.fetches = @ + 1, !.now = @ + f.poll_interval]

\* The next step of the call whose locals are f; r is what the status
\* fetch of that step gives (the head of the outer loop fetches nothing).
FrameStep(f, r) ==
    CASE f.pc = "outer" -> FrameOuter(f)
      [] f.pc = "inner" -> FrameCloudsqlPoll(f, r)
      [] f.pc = "gke_poll" -> FrameGkePoll(f, r)
      [] OTHER -> f

FrameEnded(f) == f.pc \in {"returned", "raised"}

\* The call run alone from frame f against the responses of script, in order.
RECURSIVE RunAlone(_, _)
RunAlone(f, script) ==
    IF FrameEnded(f) \/ f.pc = "idle" THEN f
    ELSE IF f.pc = "outer" THEN RunAlone(FrameStep(f, "none"), script)
    ELSE IF script = <<>> THEN f
    ELSE RunAlone(FrameStep(f, Head(script)), Tail(script))

ConcInit ==
    /\ InitInvocation
    /\ norm = NoNorm
    /\ cells = [frames |-> [i \in Invocations |-> IdleFrame],
                args |-> [i \in Invocations |-> IdleFrame],
                seen |-> [i \in Invocations |-> <<>>]]

\* Invocation i is called.
ConcInvoke(i) ==
    /\ cells.args[i].pc = "idle"
    /\ \E t \in Pollers, to \in ConcTimeouts, pi \in ConcPollIntervals :
          cells' = [cells EXCEPT !.frames[Slot(i)] = Frame(t, to, pi),
                                 !.args[i] = Frame(t, to, pi)]

\* Invocation i takes its next step.
ConcStep(i) ==
    /\ cells.args[i].pc # "idle"
    /\ ~FrameEnded(cells.frames[Slot(i)])
    /\ LET f == cells.frames[Slot(i)]
       IN  IF f.pc = "outer"
           THEN cells' = [cells EXCEPT !.frames[Slot(i)] = FrameStep(f, "none")]
           ELSE \E r \in ConcResponses :
                  cells' = [cells EXCEPT !.frames[Slot(i)] = FrameStep(f, r),
                                         !.seen[i] = Append(@, r)]

\* The variables of the invocation of Spec, which ConcSpec leaves alone.
oneVarsButNorm ==
    <<tool, pc, fault, exit, result, pollVars, sqlVars, readVars, fetch_ids>>

oneVars == <<oneVarsButNorm, norm>>

ConcInvokeAny == (\E i \in Invocations : ConcInvoke(i)) /\ UNCHANGED oneVars

ConcStepAny == (\E i \in Invocations : ConcStep(i)) /\ UNCHANGED oneVars

ConcNext ==
    \/ ConcInvokeAny
    \/ ConcStepAny

ConcSpec == ConcInit /\ [][ConcNext]_vars

\* ------------------------------------------- start and stop at the same time
\* start_cloudsql_instance and stop_cloudsql_instance each called once on
\* the same instance, each in its own thread, while a wait_cloudsql_operation
\* may poll the operation of the one that returned.  cells holds the locals
\* of the two calls (calls), the locals of the wait (wait) and the call whose
\* operation it polls (waits_on), and a record kept for the properties: the
\* patches the provider applied, in order (applied).  policy is the
\* activation policy the provider holds for the instance.
IdleCall == [pc |-> "idle", fault |-> "none", result |-> NoValue]

RaceInstance == "db1"

Polling(f) == f.pc \in {"outer", "inner"}

\* A core that lets one start/stop run at a time.
MayStep_OneAtATime(t) ==
    \A u \in CloudsqlMutators \ {t} :
        cells.calls[u].pc \notin {"sql_get", "sql_patch"}

\* What a step of a start/stop call waits for in the core: nothing (the
\* functions take no lock and consult no shared state).
MayStep(t) == TRUE

\* The call of tool t is made.
RaceInvoke(t) ==
    /\ MayStep(t)
    /\ cells.calls[t].pc = "idle"
    /\ cells' = [cells EXCEPT !.calls[t].pc = "sql_get"]
    /\ UNCHANGED policy

\* instance = service.instances().get(...).execute()
RaceGet(t) ==
    /\ MayStep(t)
    /\ cells.calls[t].pc = "sql_get"
    /\ \/ cells' = [cells EXCEPT !.calls[t].pc = "sql_patch"]
       \/ \E f \in Faults \ {"Conflict"} :
             cells' = [cells EXCEPT !.calls[t].pc = "raised",
                                    !.calls[t].fault = f]
    /\ UNCHANGED policy

\* response = service.instances().patch(...).execute(), and the return
RacePatch(t) ==
    /\ MayStep(t)
    /\ cells.calls[t].pc = "sql_patch"
    /\ \/ /\ policy' = CloudsqlPatchBody(t)
          /\ \E r \in ResponseNames :
                cells' = [cells EXCEPT
                    !.calls[t].pc = "returned",
                    !.calls[t].result = CloudsqlAckFor(t, RaceInstance, r),
                    !.applied = Append(@,
                        [by |-> t, body |-> CloudsqlPatchBody(t),
                         others |-> {cells.calls[u].pc :
                                        u \in CloudsqlMutators \ {t}},
                         polling |-> Polling(cells.wait)])]
       \/ /\ \E f \in Faults :
                cells' = [cells EXCEPT !.calls[t].pc = "raised",
                                       !.calls[t].fault = f]
          /\ UNCHANGED policy

\* wait_cloudsql_operation is called on the operation of a call that returned.
RaceWaitInvoke ==
    /\ cells.wait.pc = "idle"
    /\ \E t \in CloudsqlMutators :
          /\ cells.calls[t].pc = "returned"
          /\ \E to \in ConcTimeouts, pi \in ConcPollIntervals :
                cells' = [cells EXCEPT
                            !.wait = Frame("wait_cloudsql_operation", to, pi),
                            !.waits_on = t]
    /\ UNCHANGED policy

\* The wait takes its next step.
RaceWaitStep ==
    /\ Polling(cells.wait)
    /\ IF cells.wait.pc = "outer"
       THEN cells' = [cells EXCEPT !.wait = FrameStep(@, "none")]
       ELSE \E r \in ConcResponses :
               cells' = [cells EXCEPT !.wait = FrameStep(@, r)]
    /\ UNCHANGED policy

\* The variables of the invocation of Spec that a race leaves alone.
raceFrame ==
    <<tool, pc, fault, exit, result, pollVars, patch_body, instance_name,
      response_name, readVars, fetch_ids, norm>>

RaceInit ==
    /\ InitInvocation
    /\ norm = NoNorm
    /\ cells = [calls |-> [t \in CloudsqlMutators |-> IdleCall],
                wait |-> IdleFrame,
                waits_on |-> "",
                applied |-> <<>>]

RaceInvokeAny == (\E t \in CloudsqlMutators : RaceInvoke(t)) /\ UNCHANGED raceFrame

RaceGetAny == (\E t \in CloudsqlMutators : RaceGet(t)) /\ UNCHANGED raceFrame

RacePatchAny == (\E t \in CloudsqlMutators : RacePatch(t)) /\ UNCHANGED raceFrame

RaceWaitInvokeAny == RaceWaitInvoke /\ UNCHANGED raceFrame

RaceWaitStepAny == RaceWaitStep /\ UNCHANGED raceFrame

RaceNext ==
    \/ RaceInvokeAny
    \/ RaceGetAny
    \/ RacePatchAny
    \/ RaceWaitInvokeAny
    \/ RaceWaitStepAny

RaceSpec == RaceInit /\ [][RaceNext]_vars

\* ------------------------------------------------------------ normalizers
\* The normalizers are functions of one raw record.  norm holds the input
\* drawn for one of them and, once it has been applied, its output.
Pending == [pending |-> TRUE]

\* A databaseVersion string is written as the sequence of its chunks: the
\* words between the underscores, and the underscores.
Words == {"MYSQL", "mysql", "POSTGRES", "SQLSERVER", "8", "0"}

Chunks == Words \cup {"_"}

\* The strings of n chunks: no two words are adjacent (they would be one word).
StringsOfLen(n) ==
    { s \in [1..n -> Chunks] :
        \A i \in 1..(n - 1) : s[i] = "_" \/ s[i + 1] = "_" }

VersionStrings == UNION { StringsOfLen(n) : n \in 0..MaxVersionLen }

\* instance.get("databaseVersion", ""): the string, "" when the key is absent
DatabaseVersionOf(in) == IF in.present THEN in.chunks ELSE <<>>

\* str.split("_"): the words between the underscores, "" where two
\* underscores meet and at an underscore that begins or ends the string.
RECURSIVE SplitAcc(_, _, _)
SplitAcc(s, cur, acc) ==
    IF s = <<>> THEN Append(acc, cur)
    ELSE IF Head(s) = "_" THEN SplitAcc(Tail(s), "", Append(acc, cur))
    ELSE SplitAcc(Tail(s), Head(s), acc)

Split(s) == SplitAcc(s, "", <<>>)

\* ".".join(tokens), as chunks: the words and the dots.
RECURSIVE JoinDot(_)
JoinDot(tokens) ==
    IF tokens = <<>> THEN <<>>
    ELSE (IF Head(tokens) = "" THEN <<>> ELSE <<Head(tokens)>>)
            \o (IF Tail(tokens) = <<>> THEN <<>> ELSE <<".">> \o JoinDot(Tail(tokens)))

\* str.upper()
Upper(w) == IF w = "mysql" THEN "MYSQL" ELSE w

\* str.capitalize(): first character upper case, the others lower case
Capitalize(w) ==
    CASE w \in {"MYSQL", "mysql"} -> "Mysql"
      [] w = "POSTGRES" -> "Postgres"
      [] w = "SQLSERVER" -> "Sqlserver"
      [] OTHER -> w

\* The engine table matched without upper-casing the token.
GetDbType_Exact(db_type) ==
    IF db_type = "MYSQL" THEN "MySQL"
    ELSE IF db_type = "POSTGRES" THEN "Postgres"
    ELSE Capitalize(db_type)

\* __get_db_type
GetDbType(db_type) ==
    IF Upper(db_type) = "MYSQL" THEN "MySQL"
    ELSE IF Upper(db_type) = "POSTGRES" THEN "Postgres"
    ELSE Capitalize(db_type)

\* database_type and database_version of GcpCloudSQLItem.build
BuildVersion(in) ==
    LET version_splited == Split(DatabaseVersionOf(in))
    IN  [database_type |->
             IF version_splited # <<>> /\ version_splited[1] # ""
             THEN GetDbType(version_splited[1]) ELSE "",
         database_version |->
             IF Len(version_splited) > 1
             THEN JoinDot(Tail(version_splited)) ELSE <<>>]

VersionInputs ==
    {[present |-> FALSE, chunks |-> <<>>]}
        \cup {[present |-> TRUE, chunks |-> s] : s \in VersionStrings}

\* build() applied to a record with the databaseVersion drawn.
NormalizeVersion ==
    /\ norm.fn = "version"
    /\ norm.output = Pending
    /\ norm' = [norm EXCEPT !.output = BuildVersion(norm.input)]
    /\ UNCHANGED <<oneVarsButNorm, cells>>

\* ---------------------------------------------------- the boot disk (GCE)
\* A disk of the record's "disks" list: its boot flag, and its deviceName
\* and diskSizeGb fields, each "absent" when the key is missing.
DiskBoot == {"true", "false", "absent"}

DeviceNames == {"absent", "a", "b"}

DiskSizes == {"absent", "10"}

Disk == [boot : DiskBoot, deviceName : DeviceNames, diskSizeGb : DiskSizes]

DiskLists == UNION { [1..n -> Disk] : n \in 0..MaxDisks }

DiskInputs ==
    {[present |-> FALSE, disks |-> <<>>]}
        \cup {[present |-> TRUE, disks |-> d] : d \in DiskLists}

\* instance_data.get("disks", [])
DisksOf(in) == IF in.present THEN in.disks ELSE <<>>

\* found_boot_disk = None
NoDisk == [none |-> TRUE]

\* The loop over disks_data: the first disk whose boot flag is truthy.
RECURSIVE FirstFlagged(_)
FirstFlagged(disks_data) ==
    IF disks_data = <<>> THEN NoDisk
    ELSE IF Head(disks_data).boot = "true" THEN Head(disks_data)
    ELSE FirstFlagged(Tail(disks_data))

\* The first disk of the list whatever the flags.
FindBootDisk_FirstDisk(disks_data) ==
    IF disks_data # <<>> THEN disks_data[1] ELSE NoDisk

\* found_boot_disk after the search and its fallback
FindBootDisk(disks_data) ==
    IF disks_data # <<>>
    THEN LET found_boot_disk == FirstFlagged(disks_data)
         IN  IF found_boot_disk = NoDisk THEN disks_data[1] ELSE found_boot_disk
    ELSE NoDisk

\* disk.get(key, "N/A")
DiskGet(value) == IF value = "absent" THEN "N/A" ELSE value

\* "Boot Disk Name" and "Boot Disk Size (GB)" of GcpComputeInstanceItem.build
BuildBootDisk(in) ==
    LET found_boot_disk == FindBootDisk(DisksOf(in))
    IN  IF found_boot_disk # NoDisk
        THEN [boot_disk_name |-> DiskGet(found_boot_disk.deviceName),
              boot_disk_size_gb |-> DiskGet(found_boot_disk.diskSizeGb)]
        ELSE [boot_disk_name |-> "N/A", boot_disk_size_gb |-> "N/A"]

\* build() applied to a record with the disks drawn.
NormalizeBootDisk ==
    /\ norm.fn = "boot_disk"
    /\ norm.output = Pending
    /\ norm' = [norm EXCEPT !.output = BuildBootDisk(norm.input)]
    /\ UNCHANGED <<oneVarsButNorm, cells>>

\* ------------------------------------------- the whole records they build
\* An upstream record is written as the set of its optional fields that are
\* present (a field of the settings, of the scheduledMaintenance or of the
\* first network interface is written by its own name; it is present only
\* with the object that holds it).  A value computed from a present field
\* is written "value"; a parsed time "datetime", serialized "isoformat".
CloudsqlFields ==
    {"name", "databaseVersion", "activationPolicy", "availabilityType",
     "sslMode", "dataDiskSizeGb", "dataDiskType", "tier", "gceZone",
     "instanceType", "createTime", "ipAddresses", "scheduledMaintenance",
     "canReschedule", "startTime", "scheduleDeadlineTime",
     "maintenanceVersion", "availableMaintenanceVersions"}

\* The sets of present fields drawn from the optional fields of a record.
FieldSets(fields) ==
    { q \in SUBSET fields :
        Cardinality(q) <= MaxFields \/ Cardinality(fields \ q) <= MaxFields }

CloudsqlItemInputs ==
    { [present |-> p] : p \in
        { q \in FieldSets(CloudsqlFields) :
            {"canReschedule", "startTime", "scheduleDeadlineTime"} \cap q # {}
                => "scheduledMaintenance" \in q } }

\* GcpCloudSQLItem.build: the item, one value for each dataclass field.
CloudsqlItemBuild(in) ==
    LET has(f) == f \in in.present
        get(f, default) == IF has(f) THEN "value" ELSE default
        get_dt(f) == IF has(f) THEN "datetime" ELSE "null"
        sm == has("scheduledMaintenance")
    IN  [k \in CloudsqlItemKeys |->
          CASE k = "name" -> get("name", "")
            [] k = "database_type" -> get("databaseVersion", "")
            [] k = "database_version" -> get("databaseVersion", "")
            [] k = "status" -> get("activationPolicy", "STOPPED")
            [] k = "zone" -> get("gceZone", "")
            [] k = "is_replica" -> get("instanceType", "False")
            [] k = "is_ha_enabled" -> get("availabilityType", "False")
            [] k = "is_ssl_enabled" -> get("sslMode", "False")
            [] k = "disk_size" -> get("dataDiskSizeGb", "0")
            [] k = "disk_type" -> get("dataDiskType", "")
            [] k = "machine_type" -> get("tier", "")
            [] k = "create_time" -> get_dt("createTime")
            [] k = "internal_ip_address" -> get("ipAddresses", "null")
            [] k = "public_ip_address" -> get("ipAddresses", "null")
            [] k = "ma_reschedulable" ->
                  IF sm THEN get("canReschedule", "False") ELSE "null"
            [] k = "ma_start_time" ->
                  IF sm THEN get_dt("startTime") ELSE "null"
            [] k = "ma_deadline_time" ->
                  IF sm THEN get_dt("scheduleDeadlineTime") ELSE "null"
            [] k = "ma_version" ->
                  IF sm THEN get("maintenanceVersion", "null") ELSE "null"
            [] k = "ma_available_version" ->
                  IF sm THEN get("availableMaintenanceVersions", "[]") ELSE "[]"]

\* A serialization that leaves out the fields that are None.
CloudsqlAsdict_DropsNone(item) ==
    [k \in {j \in DOMAIN item : item[j] # "null"} |-> item[k]]

\* GcpCloudSQLItem.asdict: a copy of the fields, the times serialized.
CloudsqlAsdict(item) ==
    [k \in DOMAIN item |->
        IF k \in {"create_time", "ma_start_time", "ma_deadline_time"}
              /\ item[k] = "datetime"
        THEN "isoformat" ELSE item[k]]

\* build() then asdict() applied to a database-instance record.
NormalizeCloudsqlItem ==
    /\ norm.fn = "cloudsql_item"
    /\ norm.output = Pending
    /\ norm' = [norm EXCEPT
                   !.output = CloudsqlAsdict(CloudsqlItemBuild(norm.input))]
    /\ UNCHANGED <<oneVarsButNorm, cells>>

\* The compute-instance record: project_id is the constructor's argument,
\* the other fields are those of instance_data.
GceFields ==
    {"project_id", "name", "zone", "status", "machineType",
     "networkInterfaces", "networkIP", "accessConfigs", "natIP",
     "creationTimestamp"}

\* The disks of these records: none, or one disk.
GceItemDisks == { d \in DiskInputs : Len(d.disks) <= 1 }

GceItemInputs ==
    { [present |-> p, disks |-> d] :
        p \in { q \in FieldSets(GceFields) :
                  /\ {"networkIP", "accessConfigs"} \cap q # {}
                        => "networkInterfaces" \in q
                  /\ "natIP" \in q => "accessConfigs" \in q },
        d \in GceItemDisks }

\* GcpComputeInstanceItem.build: the dictionary it returns.
GceItemBuild(in) ==
    LET has(f) == f \in in.present
        get(f, default) == IF has(f) THEN "value" ELSE default
        boot == BuildBootDisk(in.disks)
    IN  [k \in GceItemKeys |->
          CASE k = "Project ID" -> get("project_id", "N/A")
            [] k = "Name" -> get("name", "Unknown")
            [] k = "Zone" -> get("zone", "Unknown")
            [] k = "Status" -> get("status", "UNKNOWN")
            [] k = "Machine Type" -> get("machineType", "")
            [] k = "Internal IP" ->
                  IF has("networkInterfaces") THEN get("networkIP", "N/A")
                  ELSE "N/A"
            [] k = "External IP" ->
                  IF has("networkInterfaces") /\ has("accessConfigs")
                  THEN get("natIP", "N/A") ELSE "N/A"
            [] k = "Boot Disk Name" -> boot.boot_disk_name
            [] k = "Boot Disk Size (GB)" -> boot.boot_disk_size_gb
            [] k = "Creation Timestamp" -> get("creationTimestamp", "N/A")]

\* build() applied to a compute-instance record.
NormalizeGceItem ==
    /\ norm.fn = "gce_item"
    /\ norm.output = Pending
    /\ norm' = [norm EXCEPT !.output = GceItemBuild(norm.input)]
    /\ UNCHANGED <<oneVarsButNorm, cells>>

\* -------------------------------------------------------------- get_metric
\* get_metric keeps no state between calls: it is run here from its
\* arguments and the clock reading, like the normalizers.
\* time.time() is drawn from ClockBase seconds onwards, in tenths.
ClockBase == 1000

NowTenths == { ClockBase * 10 + t : t \in 0..MaxNowTenths }

\* resource_label and resource_label_value: None, the empty string, a name
ResourceLabels == {"None", "", "service_name"}

ResourceLabelValues == {"None", "", "my-service"}

MetricInputs ==
    [minutes : 0..MaxMinutes, now : NowTenths,
     resource_label : ResourceLabels,
     resource_label_value : ResourceLabelValues]

\* The truth value Python gives an optional string.
Truthy(x) == x \notin {"None", ""}

\* int(now), now in tenths of a second
IntSeconds(tenths) == tenths \div 10

\* The interval of the request
MetricInterval(in) ==
    [end_time |-> IntSeconds(in.now),
     start_time |-> IntSeconds(in.now) - in.minutes * 60]

\* The label predicate added when either of the two arguments is given.
MetricFilter_EitherGiven(in) ==
    <<[lhs |-> <<"metric", "type">>, rhs |-> "metric_type"]>>
        \o (IF Truthy(in.resource_label) \/ Truthy(in.resource_label_value)
            THEN <<[lhs |-> <<"resource", "label", in.resource_label>>,
                    rhs |-> in.resource_label_value]>>
            ELSE <<>>)

\* metric_filter: the predicates joined by AND, each lhs="rhs"
MetricFilter(in) ==
    <<[lhs |-> <<"metric", "type">>, rhs |-> "metric_type"]>>
        \o (IF Truthy(in.resource_label) /\ Truthy(in.resource_label_value)
            THEN <<[lhs |-> <<"resource", "label", in.resource_label>>,
                    rhs |-> in.resource_label_value]>>
            ELSE <<>>)

\* The request handed to client.list_time_series
MetricRequest(in) ==
    [name |-> "projects/project_id", filter |-> MetricFilter(in),
     interval |-> MetricInterval(in), view |-> "FULL"]

NoRequest == [none |-> TRUE]

\* get_metric: the client cannot be made (raise before any request), or the
\* request is sent and the provider raises or returns some time series.
GetMetric ==
    /\ norm.fn = "get_metric"
    /\ norm.output = Pending
    /\ \/ norm' = [norm EXCEPT !.output =
                      [request |-> NoRequest, exit |-> "raised", series |-> 0]]
       \/ norm' = [norm EXCEPT !.output =
                      [request |-> MetricRequest(norm.input),
                       exit |-> "raised", series |-> 0]]
       \/ \E n \in 0..MaxRecords :
             norm' = [norm EXCEPT !.output =
                         [request |-> MetricRequest(norm.input),
                          exit |-> "returned", series |-> n]]
    /\ UNCHANGED <<oneVarsButNorm, cells>>

\* ------------------------------------------------- the normalizers' runs
NormInputs ==
    {[fn |-> "version", input |-> v, output |-> Pending] : v \in VersionInputs}
        \cup {[fn |-> "boot_disk", input |-> d, output |-> Pending] : d \in DiskInputs}
        \cup {[fn |-> "cloudsql_item", input |-> r, output |-> Pending] :
                    r \in CloudsqlItemInputs}
        \cup {[fn |-> "gce_item", input |-> r, output |-> Pending] :
                    r \in GceItemInputs}
        \cup {[fn |-> "get_metric", input |-> a, output |-> Pending] :
                    a \in MetricInputs}

NormInit ==
    /\ InitInvocation
    /\ cells = NoCells
    /\ norm \in NormInputs

NormNext ==
    \/ NormalizeVersion
    \/ NormalizeBootDisk
    \/ NormalizeCloudsqlItem
    \/ NormalizeGceItem
    \/ GetMetric

NormSpec == NormInit /\ [][NormNext]_vars

\* ================================================================ claims

\* C1: in wait_cloudsql_operation and wait_gke_operation, once the provider
\* has reported DONE for the first time, at status fetch N, no further status
\* fetch is issued (the wait has issued exactly N fetches) and the value the
\* wait returns reports DONE and is built from that N-th payload.
C1_DoneAtNthFetch ==
    (tool \in Pollers /\ firstDone # 0) =>
        /\ fetches = firstDone
        /\ pc \in {"enrich", "returned"}
        /\ pc = "returned" =>
              /\ exit = "terminal"
              /\ result.status = "DONE"
              /\ result.seq = firstDone
              /\ tool = "wait_gke_operation" => result.done

\* A chunked CloudSQL wait that saw DONE in its second inner poll, at fetch 3 or later.
C1_Witness ==
    /\ tool = "wait_cloudsql_operation"
    /\ pc = "returned"
    /\ inner_polls >= 2
    /\ firstDone >= 3
    /\ result.status = "DONE"

\* C2 (as claimed): a wait on an operation that never turns terminal returns
\* a timeout result, and the time it has blocked never exceeds
\* timeout + one poll_interval.
C2_BlockedWithinTimeoutPlusPoll ==
    (tool \in Pollers /\ timeout > 0) =>
        /\ now <= timeout + poll_interval
        /\ exit = "timeout" =>
              /\ pc = "returned"
              /\ tool = "wait_gke_operation" => result.timeout
              /\ tool = "wait_cloudsql_operation" => result.error = "OPERATION_TIMEOUT"

\* C3 (as claimed): when poll_interval > timeout, a wait does not sleep past
\* the timeout (timeout=1, poll_interval=5 returns after about 1 second).
C3_NoSleepPastTimeout ==
    (tool \in Pollers /\ timeout >= 1 /\ poll_interval > timeout) => now <= timeout

\* C4: when wait_cloudsql_operation (timeout > 0) ends by exhausting its
\* budget it returns (does not raise) the last payload it fetched with error
\* set to {Timed out after <timeout> seconds, OPERATION_TIMEOUT}; and no value
\* it returns carries OPERATION_TIMEOUT together with status DONE.
C4_TimeoutIsValue ==
    tool = "wait_cloudsql_operation" =>
        /\ (timeout > 0 /\ exit = "timeout") =>
              /\ pc = "returned"
              /\ fetches > 0
              /\ result.seq = fetches
              /\ result.seq = operation.seq
              /\ result.status = operation.status
              /\ result.keys = PayloadKeys(operation) \cup {"error"}
              /\ result.error = "OPERATION_TIMEOUT"
              /\ result.seconds = timeout
        /\ result.error = "OPERATION_TIMEOUT" => result.status # "DONE"

\* A timeout after three inner polls.
C4_Witness ==
    /\ tool = "wait_cloudsql_operation"
    /\ pc = "returned"
    /\ exit = "timeout"
    /\ inner_polls = 3
    /\ result.error = "OPERATION_TIMEOUT"

C6_GkeOutcomesDistinct ==
    (tool = "wait_gke_operation" /\ pc = "returned" /\ "done" \in result.keys) =>
        /\ result.done <=> result.status = "DONE"
        /\ result.timeout <=> result.status = "TIMEOUT"
        /\ ~(result.done /\ result.timeout)
        /\ operation.status = "ABORTING" =>
              /\ ~result.done
              /\ ~result.timeout
              /\ result.status = "ABORTING"
              /\ result.error # "null"

\* An ABORTING operation without an error object, seen after a few polls.
C6_Witness ==
    /\ tool = "wait_gke_operation"
    /\ pc = "returned"
    /\ operation.status = "ABORTING"
    /\ operation.error = "none"
    /\ fetches >= 2

\* C7 (as claimed): when the provider returns DONE together with an error,
\* the wait result reports the state ABORTED/ERROR rather than DONE, with
\* the provider's error attached.
C7_FailedTerminalNotDone ==
    (tool \in Pollers /\ pc = "returned"
        /\ operation.status = "DONE" /\ operation.error = "msg") =>
        /\ result.status \in {"ABORTED", "ERROR"}
        /\ result.error = "msg"

\* The exit paths of a poller, read off the state it ended in.
ExitByTerminal ==
    /\ exit = "terminal"
    /\ operation.status \in {"DONE", "ABORTING"}
    /\ fault = "none"

ExitByTimeout ==
    /\ exit = "timeout"
    /\ operation.status \notin {"DONE", "ABORTING"}
    /\ fault = "none"
    /\ now >= timeout

ExitByFetchError ==
    /\ exit = "error"
    /\ fault # "none"

\* C8: every invocation of wait_cloudsql_operation and wait_gke_operation
\* eventually ends, and it ends by a terminal state having been observed, by
\* the timeout budget having been used up (at least timeout seconds have
\* passed), or by a status fetch having raised; nothing else ends it.
C8_WaitEndsByOneExit ==
    /\ (tool \in Pollers) ~> Ended
    /\ []((tool \in Pollers /\ Ended) =>
            (ExitByTerminal \/ ExitByTimeout \/ ExitByFetchError))

\* A chunked wait that ran out of budget after three inner polls.
C8_Witness ==
    /\ tool = "wait_cloudsql_operation"
    /\ Ended
    /\ ExitByTimeout
    /\ inner_polls = 3
    /\ fetches > 3

\* C9: wait_cloudsql_operation's result has an instance_details key only
\* when the operation was seen DONE and the follow-up instances.get
\* returned; when that read raises, the wait still returns (does not raise)
\* the DONE payload, without the key; a timeout result never has the key.
C9_InstanceDetailsOnlyAfterDone ==
    tool = "wait_cloudsql_operation" =>
        /\ "instance_details" \in result.keys =>
              /\ operation.status = "DONE"
              /\ instance_read \notin {"none", "raise"}
        /\ instance_read = "raise" =>
              /\ pc = "returned"
              /\ exit = "terminal"
              /\ result.status = "DONE"
              /\ result.seq = operation.seq
              /\ result.keys = PayloadKeys(operation)
        /\ exit = "timeout" => "instance_details" \notin result.keys

\* The follow-up read raised and the DONE payload came back all the same.
C9_Witness ==
    /\ tool = "wait_cloudsql_operation"
    /\ pc = "returned"
    /\ instance_read = "raise"
    /\ result.status = "DONE"

\* C10: a mutating tool issues at most one mutating provider call, exactly
\* one when nothing before it failed, and once that call has raised
\* (conflict, not-found or anything else) the invocation has ended without
\* issuing it again.
C10_OneMutatingCall ==
    tool \in MutatingTools =>
        /\ mutations <= 1
        /\ (Ended /\ ~failed_before) => mutations = 1
        /\ (mutations >= 1 /\ fault # "none") => (Ended /\ mutations = 1)

\* A patch that raised Conflict.
C10_Witness ==
    /\ tool \in CloudsqlMutators
    /\ mutations = 1
    /\ fault = "Conflict"
    /\ Ended

\* C11: start_cloudsql_instance and stop_cloudsql_instance are fire and
\* forget: when they return, the one patch they sent set activationPolicy
\* to ALWAYS (start) or NEVER (stop), the value returned is {status:
\* STARTING | STOPPING, instance: the instance asked for, operation: the
\* name of the patch response}, and no operation status was fetched.
C11_StartStopFireAndForget ==
    tool \in CloudsqlMutators =>
        /\ fetches = 0
        /\ pc = "returned" =>
              /\ mutations = 1
              /\ result.keys = {"status", "instance", "operation"}
              /\ result.instance = instance_name
              /\ result.operation = (IF response_name = "absent" THEN "" ELSE response_name)
              /\ tool = "start_cloudsql_instance" =>
                    /\ patch_body = "ALWAYS"
                    /\ policy = "ALWAYS"
                    /\ result.status = "STARTING"
              /\ tool = "stop_cloudsql_instance" =>
                    /\ patch_body = "NEVER"
                    /\ policy = "NEVER"
                    /\ result.status = "STOPPING"

\* A stop that was acknowledged with an operation id.
C11_Witness ==
    /\ tool = "stop_cloudsql_instance"
    /\ pc = "returned"
    /\ result.status = "STOPPING"
    /\ result.operation = "op-2"
    /\ result.instance = "db2"

Returned == {items[i] : i \in 1..Len(items)}

\* C13: whenever the provider call a tool depends on has failed, the tool
\* ends by raising or by returning a value that carries an error; it never
\* returns a value without one (an empty list, an empty record).
C13_FailureNeverSwallowed ==
    (fault # "none" /\ Ended) =>
        \/ pc = "raised"
        \/ "error" \in result.keys

\* C14: when the provider reports not-found, get_gce_instance,
\* start_gce_instance, stop_gce_instance and wait_gce_operation return an
\* error value, and not the value they return for any other provider error
\* (the empty record).
C14_NotFoundDistinct ==
    (/\ tool \in GceMutators \cup {"wait_gce_operation", "get_gce_instance"}
     /\ fault = "NotFound"
     /\ pc = "returned") =>
        /\ "error" \in result.keys
        /\ result # GceEmptyResult

\* C15: in the three list tools, when no list request failed, the call
\* returns, and every record of the batch that can be normalized and lies in
\* the scope asked for is in the result, wherever the records that cannot be
\* normalized stand.
C15_MalformedSkipped ==
    (tool \in ListTools /\ Ended /\ fault = "none") =>
        /\ pc = "returned"
        /\ \A i \in 1..Len(Fetched(tool, upstream)) :
              LET r == Fetched(tool, upstream)[i]
              IN  (r.ok /\ InScope(r, scope)) => r.id \in Returned

\* C16: when no request failed and every record can be normalized,
\* list_cloudsql_instances and list_gce_instances return a record for every
\* instance in scope on every page of the provider's answer.
C16_AllPagesAggregated ==
    (/\ tool \in {"list_cloudsql_instances", "list_gce_instances"}
     /\ pc = "returned"
     /\ fault = "none"
     /\ \A i \in 1..Len(Flatten(upstream)) : Flatten(upstream)[i].ok) =>
        \A i \in 1..Len(Flatten(upstream)) :
            InScope(Flatten(upstream)[i], scope) => Flatten(upstream)[i].id \in Returned

\* C17: when the list request of list_cloudsql_instances succeeded, the
\* call returns {instances: items}; items holds exactly the fetched
\* instances that normalize and, unless region is "-", whose region equals
\* the region asked for (normalizing is required in both cases), each once
\* and in the provider's order; when none matches, items is empty.
C17_RegionFilterClientSide ==
    (tool = "list_cloudsql_instances" /\ Ended /\ fault = "none") =>
        LET page == upstream[1]
            Match(r) == r.ok /\ (scope = "-" \/ r.region = scope)
        IN  /\ pc = "returned"
            /\ result.keys = {"instances"}
            /\ Returned = {page[j].id : j \in {k \in 1..Len(page) : Match(page[k])}}
            /\ \A i, k \in 1..Len(items) : i < k => items[i] < items[k]
            /\ (\A j \in 1..Len(page) : ~Match(page[j])) => items = <<>>

\* Region r1 asked for; the fetched page holds an r2 instance between two r1
\* instances, and the two r1 instances are returned in order.
C17_Witness ==
    /\ tool = "list_cloudsql_instances"
    /\ pc = "returned"
    /\ scope = "r1"
    /\ Len(upstream[1]) = MaxRecords
    /\ upstream[1][2].region = "r2"
    /\ items = <<1, MaxRecords>>

\* C18: every value returned through an error path that carries an error
\* has the keys error, detail and context, and its error is a string.
C18_UniformErrorEnvelope ==
    (pc = "returned" /\ exit \in {"error", "timeout"} /\ "error" \in result.keys) =>
        /\ {"error", "detail", "context"} \subseteq result.keys
        /\ result.error \notin ErrorMappings

\* C20: the status of a normalized Cloud SQL instance is RUNNING exactly
\* when the raw record has settings whose activationPolicy is ALWAYS, and
\* STOPPED otherwise, whatever the provider's state field says.
C20_StatusFromActivationPolicy ==
    (tool = "get_cloudsql_instance" /\ pc = "returned") =>
        /\ result.status \in {"RUNNING", "STOPPED"}
        /\ result.status = "RUNNING" <=>
              (raw.settings /\ raw.activationPolicy = "ALWAYS")

\* A suspended instance whose policy is ALWAYS is reported RUNNING.
C20_Witness ==
    /\ tool = "get_cloudsql_instance"
    /\ pc = "returned"
    /\ raw.settings
    /\ raw.activationPolicy = "ALWAYS"
    /\ raw.state = "SUSPENDED"
    /\ result.status = "RUNNING"

\* What the claim compares of an invocation: its elapsed-time bookkeeping,
\* the number of its status fetches and the value it returned.
Outcome(f) ==
    [pc |-> f.pc, elapsed |-> f.elapsed, single_wait |-> f.single_wait,
     start_time |-> f.start_time, now |-> f.now, fetches |-> f.fetches,
     result |-> f.result]

TerminalStatuses(t) ==
    IF t = "wait_gke_operation" THEN {"DONE", "ABORTING"} ELSE {"DONE"}

\* C25: in wait_cloudsql_operation and wait_gke_operation a fetch that
\* returns a terminal status ends the wait with that terminal result,
\* however much time has passed; a timeout result is returned only when
\* the latest fetch, and there is one, observed a non-terminal status.
C25_TerminalBeforeTimeout ==
    tool \in Pollers =>
        /\ operation.status \in TerminalStatuses(tool) =>
              /\ pc \in {"enrich", "returned"}
              /\ pc = "returned" =>
                    /\ exit = "terminal"
                    /\ result.status = operation.status
                    /\ ~result.timeout
        /\ (pc = "returned" /\ (result.timeout \/ result.error = "OPERATION_TIMEOUT")) =>
              /\ fetches >= 1
              /\ operation.status \notin TerminalStatuses(tool)

\* DONE fetched after the timeout has passed, and returned as DONE.
C25_Witness ==
    /\ tool = "wait_gke_operation"
    /\ pc = "returned"
    /\ timeout > 0
    /\ now - start_time > timeout
    /\ operation.status = "DONE"
    /\ result.done
    /\ ~result.timeout

\* timeout / PerCallCap, rounded up.
CeilChunks(to) == (to + PerCallCap - 1) \div PerCallCap

\* C26: in wait_cloudsql_operation, for a timeout >= 0, the budget of the
\* running inner poll is min(min(60, timeout), timeout - elapsed) and is
\* > 0; 0 <= elapsed <= timeout always; elapsed = timeout when the wait
\* ends by timeout; at most ceil(timeout / 60) inner polls are started.
C26_ChunkBudget ==
    tool = "wait_cloudsql_operation" =>
        /\ 0 <= elapsed
        /\ elapsed <= timeout
        /\ pc = "inner" =>
              /\ single_wait > 0
              /\ single_wait <= PerCallCap
              /\ single_wait <= timeout - elapsed
              /\ single_wait = PerCallCap \/ single_wait = timeout
                    \/ single_wait = timeout - elapsed
        /\ exit = "timeout" => elapsed = timeout
        /\ inner_polls <= CeilChunks(timeout)

\* A wait that timed out in its third chunk, whose budget was the remainder.
C26_Witness ==
    /\ tool = "wait_cloudsql_operation"
    /\ pc = "returned"
    /\ exit = "timeout"
    /\ inner_polls = CeilChunks(timeout)
    /\ inner_polls > 2
    /\ single_wait < PerCallCap
    /\ elapsed = timeout

\* C27: wait_cloudsql_operation never returns null (a value without any
\* key); it issues no status fetch exactly when timeout <= 0, and then
\* returns the value {error: {code: UNKNOWN}}; with timeout > 0 it has
\* issued at least one status fetch when it ends.
C27_NeverNull ==
    tool = "wait_cloudsql_operation" =>
        /\ timeout <= 0 => fetches = 0
        /\ pc = "returned" =>
              /\ result.keys # {}
              /\ fetches = 0 =>
                    /\ timeout <= 0
                    /\ result.keys = {"error"}
                    /\ result.error = "UNKNOWN"
        /\ (Ended /\ timeout > 0) => fetches >= 1

\* A wait called with timeout 0 has returned without fetching anything.
C27_Witness ==
    /\ tool = "wait_cloudsql_operation"
    /\ pc = "returned"
    /\ timeout = 0
    /\ fetches = 0
    /\ result.error = "UNKNOWN"

\* C28: in start_cloudsql_instance and stop_cloudsql_instance a patch is
\* sent only after the instance read has succeeded; when the read fails the
\* call raises, no patch is ever sent and the provider's activation policy
\* stays what it was; the body of a patch that is sent is ALWAYS for start
\* and NEVER for stop, whatever the instance's policy was.
C28_ReadPrecedesPatch ==
    /\ [](tool \in CloudsqlMutators =>
            /\ mutations >= 1 => (instance_reads >= 1 /\ ~failed_before)
            /\ failed_before =>
                  /\ pc = "raised"
                  /\ fault # "none"
                  /\ mutations = 0
                  /\ patch_body = "none"
            /\ patch_body # "none" =>
                  patch_body = (IF tool = "start_cloudsql_instance"
                                THEN "ALWAYS" ELSE "NEVER"))
    /\ [][(tool \in CloudsqlMutators /\ (failed_before \/ failed_before')) =>
            policy' = policy]_vars

\* A stop of a running instance whose read failed: nothing was sent.
C28_Witness ==
    /\ tool = "stop_cloudsql_instance"
    /\ pc = "raised"
    /\ failed_before
    /\ fault = "NotFound"
    /\ mutations = 0
    /\ policy = "ALWAYS"

\* C29: a wait tool issues no mutating call; every status fetch it issues
\* is addressed to the operation identifier it was called with; the only
\* other read is wait_cloudsql_operation's one instance read, after DONE;
\* and the provider-side state of the resource does not change while it
\* runs.
C29_WaitsOnlyRead ==
    /\ [](tool \in WaitTools =>
            /\ mutations = 0
            /\ patch_body = "none"
            /\ fetch_ids \subseteq {"operation_id"}
            /\ fetches >= 1 => fetch_ids = {"operation_id"}
            /\ instance_reads <= 1
            /\ instance_reads = 1 =>
                  (tool = "wait_cloudsql_operation" /\ operation.status = "DONE"))
    /\ [][(tool \in WaitTools) => (policy' = policy)]_vars

\* A Cloud SQL wait that fetched the status several times, saw DONE and
\* read the instance.
C29_Witness ==
    /\ tool = "wait_cloudsql_operation"
    /\ pc = "returned"
    /\ fetches > 2
    /\ instance_reads = 1
    /\ fetch_ids = {"operation_id"}

\* The first token of a string of chunks: the word before the first
\* underscore, "" when the string is empty or begins with an underscore.
FirstToken(s) == IF s = <<>> \/ s[1] = "_" THEN "" ELSE s[1]

\* Whether the string has an underscore, and the place of the first one.
HasUnderscore(s) == \E i \in 1..Len(s) : s[i] = "_"
FirstUnderscore(s) == CHOOSE i \in 1..Len(s) : s[i] = "_" /\ \A j \in 1..(i - 1) : s[j] # "_"

\* What follows the first underscore, each later underscore turned into a dot.
RestDotted(s) ==
    LET k == FirstUnderscore(s)
    IN  [i \in 1..(Len(s) - k) |-> IF s[k + i] = "_" THEN "." ELSE s[k + i]]

\* The version part of C21, common to the claim and its amended form.
C21_VersionPart ==
    LET s == DatabaseVersionOf(norm.input)
    IN  norm.output.database_version = (IF HasUnderscore(s) THEN RestDotted(s) ELSE <<>>)

Normalized(fn) == norm.fn = fn /\ norm.output # Pending

\* C21 as stated: database_type is the first token mapped by the table
\* MYSQL -> MySQL, POSTGRES -> Postgres, any other token -> the token
\* capitalized ("" for an absent or empty string); database_version is the
\* other tokens joined with ".", "" when there is no underscore.
C21_TypeByExactTable ==
    Normalized("version") =>
        LET first == FirstToken(DatabaseVersionOf(norm.input))
        IN  /\ norm.output.database_type =
                 (CASE first = "MYSQL" -> "MySQL"
                    [] first = "POSTGRES" -> "Postgres"
                    [] first = "SQLSERVER" -> "Sqlserver"
                    [] first = "mysql" -> "Mysql"
                    [] OTHER -> first)
            /\ C21_VersionPart

\* C21: database_type is the first token mapped by the table, the token
\* being compared without regard to case: a token that upper-cases to
\* MYSQL -> MySQL, to POSTGRES -> Postgres, any other token -> the token
\* capitalized ("" for an absent or empty string); database_version is the
\* other tokens joined with ".", "" when there is no underscore.
C21_TypeByTableIgnoringCase ==
    Normalized("version") =>
        LET first == FirstToken(DatabaseVersionOf(norm.input))
        IN  /\ norm.output.database_type =
                 (CASE first \in {"MYSQL", "mysql"} -> "MySQL"
                    [] first = "POSTGRES" -> "Postgres"
                    [] first = "SQLSERVER" -> "Sqlserver"
                    [] OTHER -> first)
            /\ C21_VersionPart

\* MYSQL_8_0 is normalized to MySQL, 8.0.
C21_Witness ==
    /\ Normalized("version")
    /\ norm.input.present
    /\ norm.input.chunks = <<"MYSQL", "_", "8", "_", "0">>
    /\ norm.output.database_type = "MySQL"
    /\ norm.output.database_version = <<"8", ".", "0">>

\* C22: the boot disk reported for a compute instance record is the first
\* disk of the list flagged boot=true; when no disk is flagged it is the
\* first disk of the list; when the list is empty or absent both boot-disk
\* fields are "N/A" (and build returns a record, it does not raise).
C22_BootDiskResolution ==
    Normalized("boot_disk") =>
        LET disks == IF norm.input.present THEN norm.input.disks ELSE <<>>
            flagged == {i \in 1..Len(disks) : disks[i].boot = "true"}
            k == IF flagged = {} THEN 1
                 ELSE CHOOSE i \in flagged : \A j \in flagged : i <= j
            shown(v) == IF v = "absent" THEN "N/A" ELSE v
        IN  /\ DOMAIN norm.output = {"boot_disk_name", "boot_disk_size_gb"}
            /\ IF disks = <<>>
               THEN /\ norm.output.boot_disk_name = "N/A"
                    /\ norm.output.boot_disk_size_gb = "N/A"
               ELSE /\ norm.output.boot_disk_name = shown(disks[k].deviceName)
                    /\ norm.output.boot_disk_size_gb = shown(disks[k].diskSizeGb)

\* Three disks, the second and the third flagged: the second is reported.
C22_Witness ==
    /\ Normalized("boot_disk")
    /\ norm.input.present
    /\ norm.input.disks =
          << [boot |-> "false", deviceName |-> "a", diskSizeGb |-> "absent"],
             [boot |-> "true", deviceName |-> "b", diskSizeGb |-> "10"],
             [boot |-> "true", deviceName |-> "a", diskSizeGb |-> "absent"] >>
    /\ norm.output.boot_disk_name = "b"
    /\ norm.output.boot_disk_size_gb = "10"

\* The keys of the database-instance record that an upstream field feeds.
C23_CloudsqlKeysOf(f) ==
    CASE f = "name" -> {"name"}
      [] f = "databaseVersion" -> {"database_type", "database_version"}
      [] f = "activationPolicy" -> {"status"}
      [] f = "availabilityType" -> {"is_ha_enabled"}
      [] f = "sslMode" -> {"is_ssl_enabled"}
      [] f = "dataDiskSizeGb" -> {"disk_size"}
      [] f = "dataDiskType" -> {"disk_type"}
      [] f = "tier" -> {"machine_type"}
      [] f = "gceZone" -> {"zone"}
      [] f = "instanceType" -> {"is_replica"}
      [] f = "createTime" -> {"create_time"}
      [] f = "ipAddresses" -> {"internal_ip_address", "public_ip_address"}
      [] f = "scheduledMaintenance" ->
            {"ma_reschedulable", "ma_start_time", "ma_deadline_time",
             "ma_version", "ma_available_version"}
      [] f = "canReschedule" -> {"ma_reschedulable"}
      [] f = "startTime" -> {"ma_start_time"}
      [] f = "scheduleDeadlineTime" -> {"ma_deadline_time"}
      [] f = "maintenanceVersion" -> {"ma_version"}
      [] f = "availableMaintenanceVersions" -> {"ma_available_version"}

\* The keys of the compute-instance record that an upstream field feeds.
C23_GceKeysOf(f) ==
    CASE f = "project_id" -> {"Project ID"}
      [] f = "name" -> {"Name"}
      [] f = "zone" -> {"Zone"}
      [] f = "status" -> {"Status"}
      [] f = "machineType" -> {"Machine Type"}
      [] f = "networkInterfaces" -> {"Internal IP", "External IP"}
      [] f = "networkIP" -> {"Internal IP"}
      [] f = "accessConfigs" -> {"External IP"}
      [] f = "natIP" -> {"External IP"}
      [] f = "creationTimestamp" -> {"Creation Timestamp"}

\* Both records have their fixed keys, and every key fed by an absent
\* field holds one of the values of the set placeholders.
C23_KeysAndPlaceholders(placeholders) ==
    /\ Normalized("cloudsql_item") =>
          /\ DOMAIN norm.output = CloudsqlItemKeys
          /\ \A f \in CloudsqlFields \ norm.input.present :
                \A k \in C23_CloudsqlKeysOf(f) : norm.output[k] \in placeholders
    /\ Normalized("gce_item") =>
          /\ DOMAIN norm.output = GceItemKeys
          /\ \A f \in GceFields \ norm.input.present :
                \A k \in C23_GceKeysOf(f) : norm.output[k] \in placeholders
          /\ DisksOf(norm.input.disks) = <<>> =>
                /\ norm.output["Boot Disk Name"] \in placeholders
                /\ norm.output["Boot Disk Size (GB)"] \in placeholders

\* C23 as stated: every record of the two normalizers has the same fixed
\* set of keys whichever optional fields are absent, and an absent field
\* resolves to one of the placeholders "", null, "N/A", the empty list,
\* "Unknown".
C23_StatedPlaceholders ==
    C23_KeysAndPlaceholders({"", "null", "N/A", "[]", "Unknown"})

\* C23: every record of the two normalizers has the same fixed set of keys
\* whichever optional fields are absent, never an omitted key; an absent
\* field resolves to an explicit default: "", null, "N/A", the empty list,
\* "Unknown", or else "UNKNOWN" (compute status), "STOPPED" (database
\* status), False (the three database flags and ma_reschedulable) or 0
\* (disk_size).
C23_FixedKeys ==
    C23_KeysAndPlaceholders(
        {"", "null", "N/A", "[]", "Unknown", "UNKNOWN", "STOPPED", "False", "0"})

\* A database record with nothing but its name, and all its keys.
C23_Witness ==
    /\ Normalized("cloudsql_item")
    /\ norm.input.present = {"name"}
    /\ DOMAIN norm.output = CloudsqlItemKeys
    /\ norm.output["name"] = "value"
    /\ norm.output["create_time"] = "null"
    /\ norm.output["ma_available_version"] = "[]"

\* C24: the request of get_metric covers [now - minutes*60, now] in whole
\* seconds, and its filter is the metric-type equality predicate, ANDed
\* with exactly one resource-label equality predicate when and only when a
\* resource label and its value are both supplied (non-empty); otherwise
\* the filter is the metric-type predicate alone.
C24_WindowAndFilter ==
    (Normalized("get_metric") /\ norm.output.request # NoRequest) =>
        LET in == norm.input
            request == norm.output.request
            supplied(x) == x # "None" /\ x # ""
            both == supplied(in.resource_label) /\ supplied(in.resource_label_value)
            whole_now == CHOOSE sec \in 0..(in.now \div 10 + 1) :
                            sec * 10 <= in.now /\ in.now < (sec + 1) * 10
        IN  /\ request.interval.end_time = whole_now
            /\ request.interval.start_time = whole_now - in.minutes * 60
            /\ request.filter[1] = [lhs |-> <<"metric", "type">>, rhs |-> "metric_type"]
            /\ Len(request.filter) = (IF both THEN 2 ELSE 1)
            /\ both => request.filter[2] =
                          [lhs |-> <<"resource", "label", in.resource_label>>,
                           rhs |-> in.resource_label_value]

\* A query of three minutes with the label and its value, at a clock
\* reading that is not a whole second, that returned.
C24_Witness ==
    /\ Normalized("get_metric")
    /\ norm.output.exit = "returned"
    /\ norm.input.minutes = 3
    /\ norm.input.now = 10007
    /\ norm.input.resource_label = "service_name"
    /\ norm.input.resource_label_value = "my-service"
    /\ norm.output.request.interval = [end_time |-> 1000, start_time |-> 820]
    /\ Len(norm.output.request.filter) = 2

\* C30: the core neither locks nor serializes start and stop on one
\* instance.  Whatever the other call and a polling wait are doing, a call
\* can always take its next step; a call raises only when the provider
\* raised; every call that returned has had its patch applied by the
\* provider and returns its STARTING/STOPPING acknowledgment; and the
\* instance's activation policy is that of the patch applied last.
C30_RaceAtProvider ==
    /\ \A t \in CloudsqlMutators :
          LET c == cells.calls[t]
              mine == {k \in 1..Len(cells.applied) : cells.applied[k].by = t}
          IN  /\ c.pc = "idle" => ENABLED RaceInvoke(t)
              /\ c.pc = "sql_get" => ENABLED RaceGet(t)
              /\ c.pc = "sql_patch" => ENABLED RacePatch(t)
              /\ c.pc = "raised" => c.fault \in Faults
              /\ c.pc = "returned" =>
                    /\ Cardinality(mine) = 1
                    /\ c.result.status =
                          (IF t = "start_cloudsql_instance"
                           THEN "STARTING" ELSE "STOPPING")
                    /\ c.result.instance = RaceInstance
              /\ c.pc # "returned" => mine = {}
    /\ \A k \in 1..Len(cells.applied) :
          cells.applied[k].body =
              (IF cells.applied[k].by = "start_cloudsql_instance"
               THEN "ALWAYS" ELSE "NEVER")
    /\ cells.applied # <<>> =>
          policy = cells.applied[Len(cells.applied)].body

\* Start and stop both past their read before either patch; the start is
\* applied first, a wait polls its operation, the stop is applied while the
\* wait is polling; both returned and the instance is left stopped.
C30_Witness ==
    /\ cells.calls["start_cloudsql_instance"].pc = "returned"
    /\ cells.calls["stop_cloudsql_instance"].pc = "returned"
    /\ cells.calls["start_cloudsql_instance"].result.status = "STARTING"
    /\ cells.calls["stop_cloudsql_instance"].result.status = "STOPPING"
    /\ Len(cells.applied) = 2
    /\ cells.applied[1].by = "start_cloudsql_instance"
    /\ cells.applied[1].others = {"sql_patch"}
    /\ cells.applied[2].by = "stop_cloudsql_instance"
    /\ cells.applied[2].polling
    /\ cells.waits_on = "start_cloudsql_instance"
    /\ policy = "NEVER"

====
